---- MODULE Spec2Model ----
(***************************************************************************)
(* A model of go-id3: the synchsafe integer codec, the text encodings, the *)
(* frame model, the tag decoder (decoder.go), the tag encoder (encoder.go) *)
(* and the File save strategy.                                             *)
(*                                                                         *)
(* Bytes are the integers 0..255, Go strings and []byte are sequences of   *)
(* bytes, a frame id is its 4 bytes.  A Go panic is the outcome "panic".   *)
(***************************************************************************)
EXTENDS Integers, Sequences, FiniteSets, TLC

VARIABLES
    cx,        \* codec: the size handed to the synchsafe encoder
    cbytes,    \* codec: intToBytes(synchsafeInt(cx)), <<>> before the call
    cy,        \* codec: desynchsafeInt(cbytes), -1 before the call
    chdr,      \* codec: generateHeader(cx), <<>> before the call
    cfh,       \* codec: FrameHeader.serialize(cx), <<>> before the call
    stream,    \* decoder: the bytes of the stream the Decoder reads
    pitems,    \* decoder: the names of the blocks the stream was built from
    psr,       \* decoder: the most bytes one bare Read of the stream returns
    pos,       \* decoder: bytes of the stream consumed so far
    lim,       \* decoder: N of the LimitedReader, -1 before ParseHeader
    pstate,    \* decoder: "idle", "start", "frames", "done" or "panic"
    tagHeader, \* decoder: tag.Header
    tagFrames, \* decoder: tag.Frames
    perr,      \* decoder: the error Parse returned, "nil" for none
    lastHdr,   \* decoder: the frame header bytes the last ParseFrame read
    lastHdrEnd, \* decoder: pos right after that frame header
    etag,      \* encoder: the frames of the Tag handed to WriteTag
    epadding,  \* encoder: Encoder.Padding
    enow,      \* encoder: the time.Now() WriteTag will see
    estate,    \* encoder: "idle", "ready", "written" or "panic"
    disk,      \* file: the bytes of the file on disk
    disk0,     \* file: the bytes of the file before Save
    dframes,   \* file: the frames the tag on disk holds
    fstate,    \* file: "idle", "closed", "open", "edited", "saved", "error", "panic"
    fpath,     \* file: the path Save took, "inplace" or "rewrite" ("none" before)
    fileSize,  \* file: File.fileSize
    audioReader, \* file: File.audioReader, a section [off, n] of the file
    fileHeader, \* file: File.Tag.Header
    fileFrames, \* file: File.Tag.Frames, in the order the map is walked
    fnow,      \* file: the time.Now() Save will see
    ferr,      \* file: the error Save returned
    utag,      \* tag: the Frames of a Tag that upgrade is called on
    utag0,     \* tag: its Frames before upgrade
    uversion,  \* tag: its Header.Version
    ustate,    \* tag: "idle", "old", "upgraded" or "panic"
    ttext,     \* text: the code points of a text to decode from UTF-16
    tlatin,    \* text: ISO-8859-1 bytes to convert
    tle,       \* text: result of utf16ToUTF8 on the little-endian form with BOM
    tbe,       \* text: result on the big-endian form with BOM
    tbare,     \* text: result on the big-endian form without BOM
    tiso,      \* text: result of iso88591ToUTF8
    tback,     \* text: result of utf8ToISO88591 on that result
    tdata,     \* text: a UTF-16 payload to split, [encoding, data]
    tsplit,    \* text: result of splitNullN(data, encoding, 2)
    tname,     \* text: a frame name handed to frameNameToUserFrame
    tuser,     \* text: what frameNameToUserFrame returned
    tkind      \* text: "idle", "utf16" or "latin"

codecVars == <<cx, cbytes, cy, chdr, cfh>>
streamVars == <<stream, pitems, psr>>
decoderVars == <<pos, lim, pstate, tagHeader, tagFrames, perr, lastHdr, lastHdrEnd>>
encoderVars == <<etag, epadding, enow, estate>>
fileVars == <<disk, disk0, dframes, fstate, fpath, fileSize, audioReader, fileHeader,
              fileFrames, fnow, ferr>>
tagVars == <<utag, utag0, uversion, ustate>>
textVars == <<ttext, tlatin, tle, tbe, tbare, tiso, tback, tdata, tsplit, tname, tuser,
              tkind>>
vars == <<codecVars, streamVars, decoderVars, encoderVars, fileVars, tagVars, textVars>>

(***************************************************************************)
(* Bit operations of Go's int (two's complement), on TLA+ integers.        *)
(***************************************************************************)
RECURSIVE Pow2(_)
Pow2(n) == IF n = 0 THEN 1 ELSE 2 * Pow2(n - 1)

\* i & m for a mask m >= 0; i may be negative (floor division and modulus
\* give the two's complement bits).
RECURSIVE BitAnd(_, _)
BitAnd(i, m) ==
    IF m = 0 THEN 0
    ELSE (i % 2) * (m % 2) + 2 * BitAnd(i \div 2, m \div 2)

\* a | b for a, b >= 0.
RECURSIVE BitOr(_, _)
BitOr(a, b) ==
    IF a = 0 THEN b
    ELSE IF b = 0 THEN a
    ELSE (IF a % 2 = 1 \/ b % 2 = 1 THEN 1 ELSE 0) + 2 * BitOr(a \div 2, b \div 2)

\* i << n
Shl(i, n) == i * Pow2(n)

\* byte(i): the low 8 bits
ToByte(i) == i % 256

Bytes == 0..255

RECURSIVE Concat(_)
Concat(ss) == IF ss = <<>> THEN <<>> ELSE Head(ss) \o Concat(Tail(ss))

Zeros(n) == [i \in 1..n |-> 0]

Min(a, b) == IF a < b THEN a ELSE b

(***************************************************************************)
(* Synchsafe integer codec.                                                *)
(***************************************************************************)
desynchsafeInt(b) ==
    BitOr(BitOr(BitOr(Shl(b[1], 21), Shl(b[2], 14)), Shl(b[3], 7)), b[4])

\* 0x7f = 127, 0x3f80 = 16256, 0x1fc000 = 2080768, 0xfe0000 = 16646144
synchsafeInt(i) ==
    BitOr(BitOr(BitOr(BitAnd(i, 127),
                      Shl(BitAnd(i, 16256), 1)),
                Shl(BitAnd(i, 2080768), 2)),
          Shl(BitAnd(i, 16646144), 3))

\* i & 0xff000000 >> 24 parses as (i & 0xff000000) >> 24 in Go; i is never
\* negative nor above 2^31 here, so the bytes are the base-256 digits.
intToBytes(i) ==
    << (i \div 16777216) % 256, (i \div 65536) % 256, (i \div 256) % 256, i % 256 >>

id3byte == <<73, 68, 51>>
versionByte == <<4, 0>>
nul == <<0>>

generateHeader(size) ==
    Concat(<< id3byte, versionByte, nul, intToBytes(synchsafeInt(size)) >>)

\* FrameHeader.serialize: out[0:4] = id, out[4:8] = size, out[8:10] = flags
FrameHeader_serialize(id, flags, size) ==
    id \o intToBytes(synchsafeInt(size)) \o SubSeq(intToBytes(flags), 3, 4)

(***************************************************************************)
(* Character encodings.  A conversion that panics in Go (index out of      *)
(* range, panic("unsupported")) has its own predicate ..._panics; the      *)
(* value operator is only used where the predicate is false.               *)
(***************************************************************************)
iso88591 == 0
utf16bom == 1
utf16be == 2
utf8 == 3

utf16nul == <<0, 0>>
utf8byte == <<utf8>>

RECURSIVE iso88591ToUTF8(_)
iso88591ToUTF8(input) ==
    IF input = <<>> THEN <<>>
    ELSE LET b == Head(input) IN
         (IF b <= 128 THEN <<b>>
          ELSE IF b >= 192 THEN <<195, b - 64>>
          ELSE <<194, b>>) \o iso88591ToUTF8(Tail(input))

\* input[j+1] is read for every byte above 128: out of range when it is last
RECURSIVE utf8ToISO88591_panics(_)
utf8ToISO88591_panics(input) ==
    IF input = <<>> THEN FALSE
    ELSE IF Head(input) <= 128 THEN utf8ToISO88591_panics(Tail(input))
    ELSE IF Len(input) < 2 THEN TRUE
    ELSE utf8ToISO88591_panics(Tail(Tail(input)))

\* a conversion back that never adds 64 to the second byte
RECURSIVE utf8ToISO88591_noShift(_)
utf8ToISO88591_noShift(input) ==
    IF input = <<>> THEN <<>>
    ELSE IF Head(input) <= 128 THEN <<Head(input)>> \o utf8ToISO88591_noShift(Tail(input))
    ELSE IF Len(input) < 2 THEN <<>>
    ELSE <<input[2]>> \o utf8ToISO88591_noShift(Tail(Tail(input)))

RECURSIVE utf8ToISO88591(_)
utf8ToISO88591(input) ==
    IF input = <<>> THEN <<>>
    ELSE IF Head(input) <= 128 THEN <<Head(input)>> \o utf8ToISO88591(Tail(input))
    ELSE IF Len(input) < 2 THEN <<>>
    ELSE (IF Head(input) = 195 THEN <<ToByte(input[2] + 64)>> ELSE <<input[2]>>)
         \o utf8ToISO88591(Tail(Tail(input)))

\* Encoding.toISO88591 is only called on the constant utf8
Encoding_toISO88591(b) == utf8ToISO88591(b)

\* string(rune): the UTF-8 encoding of one code point (surrogates and code
\* points above 0x10FFFF become U+FFFD, which utf16.Decode never hands over)
EncodeRune(r) ==
    IF r < 128 THEN <<r>>
    ELSE IF r < 2048 THEN <<192 + (r \div 64), 128 + (r % 64)>>
    ELSE IF r < 65536 THEN <<224 + (r \div 4096), 128 + ((r \div 64) % 64), 128 + (r % 64)>>
    ELSE <<240 + (r \div 262144), 128 + ((r \div 4096) % 64),
           128 + ((r \div 64) % 64), 128 + (r % 64)>>

\* unicode/utf16.Decode followed by string(): a surrogate pair is combined, a
\* lone surrogate becomes U+FFFD (65533)
RECURSIVE utf16Decode(_)
utf16Decode(u) ==
    IF u = <<>> THEN <<>>
    ELSE LET r == Head(u) IN
         IF r < 55296 \/ r >= 57344 THEN EncodeRune(r) \o utf16Decode(Tail(u))
         ELSE IF r < 56320 /\ Len(u) >= 2 /\ u[2] >= 56320 /\ u[2] < 57344
              THEN EncodeRune(65536 + (r - 55296) * 1024 + (u[2] - 56320))
                   \o utf16Decode(Tail(Tail(u)))
         ELSE EncodeRune(65533) \o utf16Decode(Tail(u))

\* input[0], input[1] and input[j+1] are read unchecked
utf16ToUTF8_panics(input) == Len(input) < 2 \/ Len(input) % 2 = 1

utf16ToUTF8(input) ==
    LET littleBOM == input[1] = 255 /\ input[2] = 254
        bigBOM == input[1] = 254 /\ input[2] = 255
        uint16s(body, bigEndian) ==
            [i \in 1..(Len(body) \div 2) |->
                IF bigEndian THEN body[2 * i - 1] * 256 + body[2 * i]
                ELSE body[2 * i - 1] + body[2 * i] * 256]
    IN utf16Decode(uint16s(IF littleBOM \/ bigBOM THEN SubSeq(input, 3, Len(input))
                           ELSE input,
                           ~littleBOM))

Encoding_toUTF8_panics(e, b) ==
    IF e \in {utf16bom, utf16be} THEN utf16ToUTF8_panics(b)
    ELSE e \notin {utf8, iso88591}

Encoding_toUTF8(e, b) ==
    LET trimNul(ret) ==
            IF Len(ret) > 0 /\ ret[Len(ret)] = 0 THEN SubSeq(ret, 1, Len(ret) - 1) ELSE ret
    IN trimNul(IF e \in {utf16bom, utf16be} THEN utf16ToUTF8(b)
               ELSE IF e = utf8 THEN b
               ELSE iso88591ToUTF8(b))

Encoding_terminator(e) == IF e \in {utf16bom, utf16be} THEN utf16nul ELSE nul

\* bytes.SplitN(s, {0}, 2)
RECURSIVE IndexNul(_, _)
IndexNul(s, i) ==
    IF i > Len(s) THEN 0 ELSE IF s[i] = 0 THEN i ELSE IndexNul(s, i + 1)

SplitNul2(s) ==
    LET cut(k) ==
            IF k = 0 THEN <<s>> ELSE <<SubSeq(s, 1, k - 1), SubSeq(s, k + 1, Len(s))>>
    IN cut(IndexNul(s, 1))

\* The UTF-16 loop of splitNullN for n = 2: i runs over the even offsets
\* (1-based: the odd indices); data[i+1] is read whenever data[i] is 0.
\* Result: 0 = no aligned pair, -1 = index out of range, else the 1-based
\* index of the first aligned 00 00 pair.
RECURSIVE splitScan(_, _)
splitScan(data, i) ==
    IF i > Len(data) THEN 0
    ELSE IF data[i] # 0 THEN splitScan(data, i + 2)
    ELSE IF i + 1 > Len(data) THEN -1
    ELSE IF data[i + 1] = 0 THEN i
    ELSE splitScan(data, i + 2)

splitNullN_panics(data, encoding) ==
    encoding \notin {utf8, iso88591} /\ splitScan(data, 1) = -1

\* splitNullN(data, encoding, 2).  prev is never advanced in the source, so
\* the trailing part is data[prev:] = data[0:].
splitNullN(data, encoding) ==
    IF encoding \in {utf8, iso88591} THEN SplitNul2(data)
    ELSE LET withMatches(matches) ==
                 IF 0 < Len(data) - 1 THEN Append(matches, data) ELSE matches
             cut(k) == withMatches(IF k > 0 THEN <<SubSeq(data, 1, k - 1)>> ELSE <<>>)
         IN cut(splitScan(data, 1))

(***************************************************************************)
(* Frame model.  A frame is a record: its kind (the Go type), the header   *)
(* fields id and flags, and the fields of its type.                        *)
(***************************************************************************)
frameLength == 10
tagHeaderSize == 10

TextInformationFrame(id, flags, text) ==
    [kind |-> "TextInformationFrame", id |-> id, flags |-> flags, Text |-> text]
UserTextInformationFrame(id, flags, desc, text) ==
    [kind |-> "UserTextInformationFrame", id |-> id, flags |-> flags,
     Description |-> desc, Text |-> text]
UniqueFileIdentifierFrame(id, flags, owner, ident) ==
    [kind |-> "UniqueFileIdentifierFrame", id |-> id, flags |-> flags,
     Owner |-> owner, Identifier |-> ident]
URLLinkFrame(id, flags, url) ==
    [kind |-> "URLLinkFrame", id |-> id, flags |-> flags, URL |-> url]
UserDefinedURLLinkFrame(id, flags, desc, url) ==
    [kind |-> "UserDefinedURLLinkFrame", id |-> id, flags |-> flags,
     Description |-> desc, URL |-> url]
CommentFrame(id, flags, lang, desc, text) ==
    [kind |-> "CommentFrame", id |-> id, flags |-> flags,
     Language |-> lang, Description |-> desc, Text |-> text]
PrivateFrame(id, flags, owner, data) ==
    [kind |-> "PrivateFrame", id |-> id, flags |-> flags, Owner |-> owner, Data |-> data]
PictureFrame(id, flags, mime, ptype, desc, data) ==
    [kind |-> "PictureFrame", id |-> id, flags |-> flags, MIMEType |-> mime,
     PictureType |-> ptype, Description |-> desc, Data |-> data]
MusicCDIdentifierFrame(id, flags, toc) ==
    [kind |-> "MusicCDIdentifierFrame", id |-> id, flags |-> flags, TOC |-> toc]
UnsynchronisedLyricsFrame(id, flags, lang, desc, lyrics) ==
    [kind |-> "UnsynchronisedLyricsFrame", id |-> id, flags |-> flags,
     Language |-> lang, Description |-> desc, Lyrics |-> lyrics]
UnsupportedFrame(id, flags, data) ==
    [kind |-> "UnsupportedFrame", id |-> id, flags |-> flags, Data |-> data]

\* frame ids, as their ASCII bytes
ID_TXXX == <<84, 88, 88, 88>>
ID_WXXX == <<87, 88, 88, 88>>
ID_UFID == <<85, 70, 73, 68>>
ID_COMM == <<67, 79, 77, 77>>
ID_PRIV == <<80, 82, 73, 86>>
ID_APIC == <<65, 80, 73, 67>>
ID_MCDI == <<77, 67, 68, 73>>
ID_USLT == <<85, 83, 76, 84>>
ID_TRDA == <<84, 82, 68, 65>>
ID_TSIZ == <<84, 83, 73, 90>>
ID_TDTG == <<84, 68, 84, 71>>
ID_TIT2 == <<84, 73, 84, 50>>
ID_TALB == <<84, 65, 76, 66>>
ID_WOAR == <<87, 79, 65, 82>>
ID_RVA2 == <<82, 86, 65, 50>>

\* FrameFlags and HeaderFlags bit tests
FrameFlags_Compressed(f) == BitAnd(f, 128) > 0
FrameFlags_Encrypted(f) == BitAnd(f, 64) > 0
\* a Grouped test on the wrong bit
FrameFlags_Grouped_bit4(f) == BitAnd(f, 16) > 0
FrameFlags_Grouped(f) == BitAnd(f, 32) > 0
HeaderFlags_Unsynchronisation(f) == BitAnd(f, 128) > 0
HeaderFlags_ExtendedHeader(f) == BitAnd(f, 64) > 0

\* a frame's size() / Encode() call utf8.toISO88591, which can panic
Frame_panics(f) ==
    CASE f.kind = "UniqueFileIdentifierFrame" -> utf8ToISO88591_panics(f.Owner)
      [] f.kind = "URLLinkFrame" -> utf8ToISO88591_panics(f.URL)
      [] f.kind = "UserDefinedURLLinkFrame" -> utf8ToISO88591_panics(f.URL)
      [] f.kind = "PictureFrame" -> utf8ToISO88591_panics(f.MIMEType)
      [] OTHER -> FALSE

\* size() of every frame type: the frame header plus the payload
Frame_size(f) ==
    CASE f.kind = "TextInformationFrame" ->
             IF f.id = ID_TRDA THEN 0 ELSE frameLength + Len(f.Text) + 1
      [] f.kind = "UserTextInformationFrame" ->
             frameLength + Len(f.Description) + Len(f.Text) + 2
      [] f.kind = "UniqueFileIdentifierFrame" ->
             frameLength + Len(f.Identifier) + Len(Encoding_toISO88591(f.Owner)) + 1
      [] f.kind = "URLLinkFrame" ->
             frameLength + Len(Encoding_toISO88591(f.URL))
      [] f.kind = "UserDefinedURLLinkFrame" ->
             frameLength + Len(f.Description) + Len(Encoding_toISO88591(f.URL)) + 2
      [] f.kind = "CommentFrame" ->
             frameLength + Len(f.Description) + Len(f.Text) + 5
      [] f.kind = "PrivateFrame" ->
             frameLength + Len(f.Owner) + Len(f.Data) + Len(nul)
      [] f.kind = "PictureFrame" ->
             frameLength + 1 + Len(Encoding_toISO88591(f.MIMEType)) + Len(nul) + 1
             + Len(f.Description) + Len(nul) + Len(f.Data)
      [] f.kind = "MusicCDIdentifierFrame" ->
             frameLength + Len(f.TOC)
      [] f.kind = "UnsynchronisedLyricsFrame" ->
             frameLength + 5 + Len(f.Description) + Len(f.Lyrics)
      [] f.kind = "UnsupportedFrame" ->
             frameLength + Len(f.Data)

\* Encode() of every frame type: the payload bytes
Frame_Encode(f) ==
    CASE f.kind = "TextInformationFrame" ->
             IF f.id \in {ID_TRDA, ID_TSIZ} THEN <<>> ELSE utf8byte \o f.Text
      [] f.kind = "UserTextInformationFrame" ->
             Concat(<<utf8byte, f.Description, nul, f.Text>>)
      [] f.kind = "UniqueFileIdentifierFrame" ->
             Concat(<<Encoding_toISO88591(f.Owner), nul, f.Identifier>>)
      [] f.kind = "URLLinkFrame" ->
             Encoding_toISO88591(f.URL)
      [] f.kind = "UserDefinedURLLinkFrame" ->
             Concat(<<utf8byte, f.Description, nul, Encoding_toISO88591(f.URL)>>)
      [] f.kind = "CommentFrame" ->
             Concat(<<utf8byte, f.Language, f.Description, nul, f.Text>>)
      [] f.kind = "PrivateFrame" ->
             Concat(<<f.Owner, nul, f.Data>>)
      [] f.kind = "PictureFrame" ->
             Concat(<<utf8byte, Encoding_toISO88591(f.MIMEType), nul, <<f.PictureType>>,
                      f.Description, nul, f.Data>>)
      [] f.kind = "MusicCDIdentifierFrame" ->
             f.TOC
      [] f.kind = "UnsynchronisedLyricsFrame" ->
             Concat(<<utf8byte, f.Language, f.Description, nul, f.Lyrics>>)
      [] f.kind = "UnsupportedFrame" ->
             f.Data

(***************************************************************************)
(* Decoder.  The reader d.r is an io.LimitedReader over the stream: av is  *)
(* what the stream still holds, n the limit N.  A read result is           *)
(* [err, data, n]: the error, the buffer's content, the bytes consumed.    *)
(* The stream is read like a bytes.Reader; sr is the most bytes one bare   *)
(* Read call hands over (a reader may return fewer bytes than asked for).  *)
(***************************************************************************)
Take(s, k) == SubSeq(s, 1, Min(k, Len(s)))
Drop(s, k) == SubSeq(s, k + 1, Len(s))

\* what the limited reader can still hand over
Within(av, n) == Take(av, IF n < 0 THEN 0 ELSE n)

\* io.ReadFull through the limited reader (binary.Read of k bytes)
ReadFull(av, n, k) ==
    LET fill(have) ==
            IF k <= have THEN [err |-> "nil", data |-> Take(av, k), n |-> k]
            ELSE IF have = 0 THEN [err |-> "EOF", data |-> <<>>, n |-> 0]
            ELSE [err |-> "ErrUnexpectedEOF", data |-> <<>>, n |-> have]
    IN fill(Len(Within(av, n)))

\* one Read call on the limited reader with a buffer of k bytes; the part
\* of the buffer that is not filled stays zero
Read(av, n, k, sr) ==
    LET fill(got) == [err |-> "nil", data |-> Take(av, got) \o Zeros(k - got), n |-> got]
    IN IF n <= 0 \/ Len(av) = 0 THEN [err |-> "EOF", data |-> Zeros(k), n |-> 0]
       ELSE fill(Min(Min(Min(k, n), Len(av)), sr))

\* readBinary(r, &a, &b, ...): one ReadFull per argument, stopping at the
\* first error.  Result: [err, parts, n].
RECURSIVE readBinary(_, _, _)
readBinary(av, n, sizes) ==
    IF sizes = <<>> THEN [err |-> "nil", parts |-> <<>>, n |-> 0]
    ELSE LET join(r, rest) ==
                 [err |-> rest.err, parts |-> <<r.data>> \o rest.parts, n |-> r.n + rest.n]
             next(r) ==
                 IF r.err # "nil" THEN [err |-> r.err, parts |-> <<>>, n |-> r.n]
                 ELSE join(r, readBinary(Drop(av, r.n), n - r.n, Tail(sizes)))
         IN next(ReadFull(av, n, Head(sizes)))

\* results of ParseFrame and of the frame readers
FrameOK(f, n) == [res |-> "frame", frame |-> f, err |-> "nil", n |-> n]
FrameErr(e, n) == [res |-> "err", frame |-> <<>>, err |-> e, n |-> n]
FramePanic(n) == [res |-> "panic", frame |-> <<>>, err |-> "panic", n |-> n]

readTXXXFrame(av, n, id, flags, frameSize) ==
    LET build(encoding, parts, read) ==
            IF Len(parts) < 2
               \/ Encoding_toUTF8_panics(encoding, parts[1])
               \/ Encoding_toUTF8_panics(encoding, parts[2])
            THEN FramePanic(read)
            ELSE FrameOK(UserTextInformationFrame(id, flags,
                             Encoding_toUTF8(encoding, parts[1]),
                             Encoding_toUTF8(encoding, parts[2])), read)
        split(encoding, rest, read) ==
            IF splitNullN_panics(rest, encoding) THEN FramePanic(read)
            ELSE build(encoding, splitNullN(rest, encoding), read)
        decode(r) ==
            IF r.err # "nil" THEN FrameErr(r.err, r.n)
            ELSE split(r.parts[1][1], r.parts[2], r.n)
    IN IF frameSize - 1 < 0 THEN FramePanic(0)
       ELSE decode(readBinary(av, n, <<1, frameSize - 1>>))

readWXXXFrame(av, n, id, flags, frameSize) ==
    LET build(encoding, parts, read) ==
            IF Len(parts) < 2 \/ Encoding_toUTF8_panics(encoding, parts[1])
            THEN FramePanic(read)
            ELSE FrameOK(UserDefinedURLLinkFrame(id, flags,
                             Encoding_toUTF8(encoding, parts[1]),
                             iso88591ToUTF8(parts[2])), read)
        split(encoding, rest, read) ==
            IF splitNullN_panics(rest, encoding) THEN FramePanic(read)
            ELSE build(encoding, splitNullN(rest, encoding), read)
        decode(r) ==
            IF r.err # "nil" THEN FrameErr(r.err, r.n)
            ELSE split(r.parts[1][1], r.parts[2], r.n)
    IN IF frameSize - 1 < 0 THEN FramePanic(0)
       ELSE decode(readBinary(av, n, <<1, frameSize - 1>>))

readUFIDFrame(av, n, id, flags, frameSize) ==
    LET build(parts, read) ==
            IF Len(parts) < 2 THEN FramePanic(read)
            ELSE FrameOK(UniqueFileIdentifierFrame(id, flags,
                             Encoding_toUTF8(iso88591, parts[1]), parts[2]), read)
        decode(r) ==
            IF r.err # "nil" THEN FrameErr(r.err, r.n)
            ELSE build(SplitNul2(r.data), r.n)
    IN decode(ReadFull(av, n, frameSize))

readCOMMFrame(av, n, id, flags, frameSize) ==
    LET build(encoding, language, parts, read) ==
            IF Len(parts) < 2
               \/ Encoding_toUTF8_panics(encoding, parts[1])
               \/ Encoding_toUTF8_panics(encoding, parts[2])
            THEN FramePanic(read)
            ELSE FrameOK(CommentFrame(id, flags, language,
                             Encoding_toUTF8(encoding, parts[1]),
                             Encoding_toUTF8(encoding, parts[2])), read)
        split(encoding, language, rest, read) ==
            IF splitNullN_panics(rest, encoding) THEN FramePanic(read)
            ELSE build(encoding, language, splitNullN(rest, encoding), read)
        decode(r) ==
            IF r.err # "nil" THEN FrameErr(r.err, r.n)
            ELSE split(r.parts[1][1], r.parts[2], r.parts[3], r.n)
    IN IF frameSize - 4 < 0 THEN FramePanic(0)
       ELSE decode(readBinary(av, n, <<1, 3, frameSize - 4>>))

readPRIVFrame(av, n, id, flags, frameSize, sr) ==
    LET build(parts, read) ==
            IF Len(parts) < 2 THEN FramePanic(read)
            ELSE FrameOK(PrivateFrame(id, flags, parts[1], parts[2]), read)
        decode(r) ==
            IF r.err # "nil" THEN FrameErr(r.err, r.n)
            ELSE build(SplitNul2(r.data), r.n)
    IN decode(Read(av, n, frameSize, sr))

readAPICFrame(av, n, id, flags, frameSize) ==
    LET build(encoding, parts1, parts2, read) ==
            IF Len(parts2) < 2 \/ Encoding_toUTF8_panics(encoding, parts2[1])
            THEN FramePanic(read)
            ELSE FrameOK(PictureFrame(id, flags,
                             Encoding_toUTF8(iso88591, parts1[1]),
                             parts1[2][1],
                             Encoding_toUTF8(encoding, parts2[1]),
                             parts2[2]), read)
        split(encoding, parts1, read) ==
            IF Len(parts1) < 2 THEN FramePanic(read)
            ELSE IF Len(parts1[2]) < 1 THEN FramePanic(read)
            ELSE IF splitNullN_panics(Tail(parts1[2]), encoding) THEN FramePanic(read)
            ELSE build(encoding, parts1, splitNullN(Tail(parts1[2]), encoding), read)
        decode(r) ==
            IF r.err # "nil" THEN FrameErr(r.err, r.n)
            ELSE split(r.parts[1][1], SplitNul2(r.parts[2]), r.n)
    IN IF frameSize - 1 < 0 THEN FramePanic(0)
       ELSE decode(readBinary(av, n, <<1, frameSize - 1>>))

\* returns the frame together with the error of the Read
readMCDIFrame(av, n, id, flags, frameSize, sr) ==
    LET decode(r) ==
            IF r.err # "nil" THEN FrameErr(r.err, r.n)
            ELSE FrameOK(MusicCDIdentifierFrame(id, flags, r.data), r.n)
    IN decode(Read(av, n, frameSize, sr))

readUSLTFrame(av, n, id, flags, frameSize) ==
    LET build(encoding, language, parts, read) ==
            IF Len(parts) < 2
               \/ Encoding_toUTF8_panics(encoding, parts[1])
               \/ Encoding_toUTF8_panics(encoding, parts[2])
            THEN FramePanic(read)
            ELSE FrameOK(UnsynchronisedLyricsFrame(id, flags, language,
                             Encoding_toUTF8(encoding, parts[1]),
                             Encoding_toUTF8(encoding, parts[2])), read)
        split(encoding, language, rest, read) ==
            IF splitNullN_panics(rest, encoding) THEN FramePanic(read)
            ELSE build(encoding, language, splitNullN(rest, encoding), read)
        decode(r) ==
            IF r.err # "nil" THEN FrameErr(r.err, r.n)
            ELSE split(r.parts[1][1], r.parts[2], r.parts[3], r.n)
    IN IF frameSize - 4 < 0 THEN FramePanic(0)
       ELSE decode(readBinary(av, n, <<1, 3, frameSize - 4>>))

\* the keys of the frameReaders table
frameReaders == {ID_TXXX, ID_WXXX, ID_UFID, ID_COMM, ID_PRIV, ID_APIC, ID_MCDI, ID_USLT}

\* an id check that also lets 'a'..'z' through
ValidIDByte_lower(b) == (b >= 48 /\ b <= 57) \/ (b >= 65 /\ b <= 90) \/ (b >= 97 /\ b <= 122)

\* the id check of ParseFrame: '0'..'9' and 'A'..'Z'
ValidIDByte(b) == (b >= 48 /\ b <= 57) \/ (b >= 65 /\ b <= 90)

\* the body of ParseFrame after the frame header was read and its id and
\* flags were accepted: the dispatch on the id.  av, n: the reader after the
\* header.
ParseFrameBody(av, n, id, flags, frameSize, sr) ==
    LET text(r) ==
            IF r.err # "nil" THEN FrameErr(r.err, r.n)
            ELSE IF Encoding_toUTF8_panics(r.parts[1][1], r.parts[2]) THEN FramePanic(r.n)
            ELSE FrameOK(TextInformationFrame(id, flags,
                             Encoding_toUTF8(r.parts[1][1], r.parts[2])), r.n)
        url(r) ==
            IF r.err # "nil" THEN FrameErr(r.err, r.n)
            ELSE FrameOK(URLLinkFrame(id, flags, Encoding_toUTF8(iso88591, r.data)), r.n)
        unsupported(r) ==
            IF r.err # "nil" THEN FrameErr(r.err, r.n)
            ELSE FrameOK(UnsupportedFrame(id, flags, Take(r.data, r.n)), r.n)
    IN
    IF id[1] = 84 /\ id # ID_TXXX THEN
        IF frameSize - 1 < 0 THEN FramePanic(0)
        ELSE text(readBinary(av, n, <<1, frameSize - 1>>))
    ELSE IF id[1] = 87 /\ id # ID_WXXX THEN url(Read(av, n, frameSize, sr))
    ELSE IF id \notin frameReaders THEN unsupported(Read(av, n, frameSize, sr))
    ELSE IF id = ID_TXXX THEN readTXXXFrame(av, n, id, flags, frameSize)
    ELSE IF id = ID_WXXX THEN readWXXXFrame(av, n, id, flags, frameSize)
    ELSE IF id = ID_UFID THEN readUFIDFrame(av, n, id, flags, frameSize)
    ELSE IF id = ID_COMM THEN readCOMMFrame(av, n, id, flags, frameSize)
    ELSE IF id = ID_PRIV THEN readPRIVFrame(av, n, id, flags, frameSize, sr)
    ELSE IF id = ID_APIC THEN readAPICFrame(av, n, id, flags, frameSize)
    ELSE IF id = ID_MCDI THEN readMCDIFrame(av, n, id, flags, frameSize, sr)
    ELSE readUSLTFrame(av, n, id, flags, frameSize)

\* Decoder.ParseFrame.  The result also carries hdr, the 10 header bytes
\* read (<<>> when none were).
ParseFrame(av, n, sr) ==
    LET counted(body) == [body EXCEPT !.n = body.n + 10]
        dispatch(id, flags, frameSize) ==
            IF id = <<0, 0, 0, 0>>
               THEN FrameErr("EOF", Len(Within(av, n)))
            ELSE IF \E i \in 1..4 : ~ValidIDByte(id[i])
               THEN FrameErr("InvalidFrameHeaderError", 10)
            ELSE IF FrameFlags_Compressed(flags)
               THEN FrameErr("UnimplementedFeatureError", 10)
            ELSE IF FrameFlags_Encrypted(flags)
               THEN FrameErr("UnimplementedFeatureError", 10)
            ELSE IF FrameFlags_Grouped(flags)
               THEN FrameErr("UnimplementedFeatureError", 10)
            ELSE counted(ParseFrameBody(Drop(av, 10), n - 10, id, flags, frameSize, sr))
        header(h) ==
            IF h.err # "nil" THEN FrameErr(h.err, h.n) @@ [hdr |-> <<>>]
            ELSE dispatch(SubSeq(h.data, 1, 4),
                          BitOr(Shl(h.data[9], 8), h.data[10]),
                          desynchsafeInt(SubSeq(h.data, 5, 8))) @@ [hdr |-> h.data]
    IN IF n = 0 THEN FrameErr("EOF", 0) @@ [hdr |-> <<>>]
       ELSE header(ReadFull(av, n, 10))

(***************************************************************************)
(* Tag: frame list queries and updates (the snapshot whose Tag.Frames is a *)
(* slice), and the upgrade to v2.4.                                        *)
(***************************************************************************)
ID_TYER == <<84, 89, 69, 82>>
ID_TDAT == <<84, 68, 65, 84>>
ID_TIME == <<84, 73, 77, 69>>
ID_TDRC == <<84, 68, 82, 67>>
ID_TDOR == <<84, 68, 79, 82>>
ID_TORY == <<84, 79, 82, 89>>
ID_XDOR == <<88, 68, 79, 82>>
ID_TLAN == <<84, 76, 65, 78>>
ID_TCON == <<84, 67, 79, 78>>
ID_TPE1 == <<84, 80, 69, 49>>
ID_TOPE == <<84, 79, 80, 69>>
ID_TCOM == <<84, 67, 79, 77>>
ID_TEXT == <<84, 69, 88, 84>>
ID_TOLY == <<84, 79, 76, 89>>

\* Value() of every frame type
Frame_Value(f) ==
    CASE f.kind = "TextInformationFrame" -> f.Text
      [] f.kind = "UserTextInformationFrame" -> f.Text
      [] f.kind = "UniqueFileIdentifierFrame" -> f.Identifier
      [] f.kind = "URLLinkFrame" -> f.URL
      [] f.kind = "UserDefinedURLLinkFrame" -> f.URL
      [] f.kind = "CommentFrame" -> f.Text
      [] f.kind = "PrivateFrame" -> f.Data
      [] f.kind = "PictureFrame" -> f.Data
      [] f.kind = "MusicCDIdentifierFrame" -> f.TOC
      [] f.kind = "UnsynchronisedLyricsFrame" -> f.Lyrics
      [] f.kind = "UnsupportedFrame" -> <<>>

Tag_HasFrame(frames, name) == \E i \in 1..Len(frames) : frames[i].id = name

\* index of the first frame with the id, 0 when there is none
FirstIndex(frames, name) ==
    IF Tag_HasFrame(frames, name)
    THEN CHOOSE i \in 1..Len(frames) :
            frames[i].id = name /\ \A j \in 1..(i - 1) : frames[j].id # name
    ELSE 0

\* frame ids are 4 bytes long, so frameNameToUserFrame says "not a user
\* frame" (len(name) < 6) and GetTextFrame is the Value of the first frame
Tag_GetTextFrame(frames, name) ==
    IF FirstIndex(frames, name) = 0 THEN <<>>
    ELSE Frame_Value(frames[FirstIndex(frames, name)])

\* SetTextFrame for a 4-byte name: the first frame of that id is replaced
\* by a new frame (with zero flags), else the new frame is appended
Tag_SetTextFrame(frames, name, value) ==
    LET i == FirstIndex(frames, name)
        newFrame == TextInformationFrame(name, 0, value)
    IN IF i = 0 THEN Append(frames, newFrame) ELSE [frames EXCEPT ![i] = newFrame]

Tag_RemoveFrames(frames, name) == SelectSeq(frames, LAMBDA f : f.id # name)

\* strconv.Atoi, its error dropped: 0 for anything that is not an optional
\* sign followed by digits (texts stay short of the range of int)
IsDigit(b) == b >= 48 /\ b <= 57

RECURSIVE DigitsValue(_, _)
DigitsValue(s, acc) ==
    IF s = <<>> THEN acc ELSE DigitsValue(Tail(s), acc * 10 + (Head(s) - 48))

Atoi(s) ==
    LET signed == Len(s) > 0 /\ s[1] \in {43, 45}
        digits == IF signed THEN Tail(s) ELSE s
    IN IF Len(digits) = 0 \/ \E i \in 1..Len(digits) : ~IsDigit(digits[i]) THEN 0
       ELSE IF signed /\ s[1] = 45 THEN 0 - DigitsValue(digits, 0)
       ELSE DigitsValue(digits, 0)

Tag_GetTextFrameNumber(frames, name) ==
    IF Tag_GetTextFrame(frames, name) = <<>> THEN 0
    ELSE Atoi(Tag_GetTextFrame(frames, name))

\* time.Date(year, month, day, hour, min, 0, 0, UTC): the fields are
\* normalised (month 0 is December of the year before, day 0 the last day
\* of the month before).  Days are counted from 0000-03-01.
DaysFromCivil(y, m, d) ==
    LET yy == IF m <= 2 THEN y - 1 ELSE y
        era == yy \div 400
        yoe == yy - era * 400
        mp == (m + 9) % 12
        doy == (153 * mp + 2) \div 5 + d - 1
        doe == yoe * 365 + yoe \div 4 - yoe \div 100 + doy
    IN era * 146097 + doe

CivilFromDays(z) ==
    LET era == z \div 146097
        doe == z - era * 146097
        yoe == (doe - doe \div 1460 + doe \div 36524 - doe \div 146096) \div 365
        doy == doe - (365 * yoe + yoe \div 4 - yoe \div 100)
        mp == (5 * doy + 2) \div 153
        d == doy - (153 * mp + 2) \div 5 + 1
        m == IF mp < 10 THEN mp + 3 ELSE mp - 9
        y == yoe + era * 400 + (IF m <= 2 THEN 1 ELSE 0)
    IN [year |-> y, month |-> m, day |-> d]

time_Date(year, month, day, hour, min) ==
    LET m0 == month - 1
        y1 == year + m0 \div 12
        m1 == (m0 % 12) + 1
        h1 == hour + min \div 60
        d1 == day + h1 \div 24
        civil == CivilFromDays(DaysFromCivil(y1, m1, 1) + d1 - 1)
    IN [year |-> civil.year, month |-> civil.month, day |-> civil.day,
        hour |-> h1 % 24, minute |-> min % 60, second |-> 0]

\* decimal digits of x >= 0, zero padded to width
RECURSIVE Digits(_, _)
Digits(x, width) ==
    IF x < 10 /\ width <= 1 THEN <<48 + x>>
    ELSE Append(Digits(x \div 10, width - 1), 48 + (x % 10))

\* Time.Format(TimeFormat), TimeFormat = "2006-01-02T15:04:05"
time_Format(t) ==
    Concat(<< IF t.year < 0 THEN <<45>> \o Digits(0 - t.year, 4) ELSE Digits(t.year, 4),
              <<45>>, Digits(t.month, 2), <<45>>, Digits(t.day, 2), <<84>>,
              Digits(t.hour, 2), <<58>>, Digits(t.minute, 2), <<58>>, Digits(t.second, 2) >>)

Tag_SetTextFrameTime(frames, name, t) == Tag_SetTextFrame(frames, name, time_Format(t))

\* strings.Split(s, "/") followed by strings.Join(_, "\x00")
SlashToNul(s) == [i \in 1..Len(s) |-> IF s[i] = 47 THEN 0 ELSE s[i]]

SlashIDs == {ID_TLAN, ID_TCON, ID_TPE1, ID_TOPE, ID_TCOM, ID_TEXT, ID_TOLY}

\* the loop "for _, frame := range t.Frames": iteration i reads the frame now
\* at position i and SetTextFrameSlice replaces the first frame of its id
RECURSIVE upgradeSlashes(_, _)
upgradeSlashes(frames, i) ==
    IF i > Len(frames) THEN frames
    ELSE IF frames[i].id \in SlashIDs
         THEN upgradeSlashes(
                 Tag_SetTextFrame(frames, frames[i].id, SlashToNul(Frame_Value(frames[i]))),
                 i + 1)
         ELSE upgradeSlashes(frames, i + 1)

\* step 1 of upgrade: TYER, TDAT, TIME become TDRC
upgradeRecordingTime(frames) ==
    IF Tag_HasFrame(frames, ID_TYER) \/ Tag_HasFrame(frames, ID_TDAT)
       \/ Tag_HasFrame(frames, ID_TIME)
    THEN LET year == Tag_GetTextFrameNumber(frames, ID_TYER)
             date0 == Tag_GetTextFrame(frames, ID_TDAT)
             date == IF Len(date0) # 4 THEN <<48, 49, 48, 49>> ELSE date0
             day == Atoi(SubSeq(date, 1, 2))
             month == Atoi(SubSeq(date, 3, 4))
             hour == Atoi(SubSeq(date, 1, 2))
             minute == Atoi(SubSeq(date, 3, 4))
             set == Tag_SetTextFrameTime(frames, ID_TDRC,
                        time_Date(year, month, day, hour, minute))
         IN Tag_RemoveFrames(Tag_RemoveFrames(Tag_RemoveFrames(set, ID_TYER), ID_TDAT),
                             ID_TIME)
    ELSE frames

\* step 2 of upgrade panics: TDOR absent and XDOR present
upgrade_panics(frames) ==
    LET f1 == upgradeRecordingTime(frames) IN
    ~Tag_HasFrame(f1, ID_TDOR) /\ Tag_HasFrame(f1, ID_XDOR)

upgradeOriginalRelease(frames) ==
    IF ~Tag_HasFrame(frames, ID_TDOR) /\ ~Tag_HasFrame(frames, ID_XDOR)
       /\ Tag_HasFrame(frames, ID_TORY)
    THEN Tag_SetTextFrameTime(frames, ID_TDOR,
             time_Date(Tag_GetTextFrameNumber(frames, ID_TORY), 0, 0, 0, 0))
    ELSE frames

\* Tag.upgrade: the frames afterwards (the version becomes 0x0400)
upgrade(frames) ==
    upgradeSlashes(upgradeOriginalRelease(upgradeRecordingTime(frames)), 1)

(***************************************************************************)
(* Decoder.Parse as a state machine: the prologue (ParseHeader and the tag *)
(* flag checks), then one step per iteration of the frame loop.            *)
(***************************************************************************)
NoHeader == [Version |-> 0, Flags |-> 0, size |-> 0]

CodecIdle == cx = 0 /\ cbytes = <<>> /\ cy = -1 /\ chdr = <<>> /\ cfh = <<>>

StreamIdle == stream = <<>> /\ pitems = <<>> /\ psr = 0

DecoderIdle ==
    /\ pos = 0
    /\ lim = -1
    /\ pstate = "idle"
    /\ tagHeader = NoHeader
    /\ tagFrames = <<>>
    /\ perr = "nil"
    /\ lastHdr = <<>>
    /\ lastHdrEnd = 0

NoTime == [year |-> 1, month |-> 1, day |-> 1, hour |-> 0, minute |-> 0, second |-> 0]

TagIdle == utag = <<>> /\ utag0 = <<>> /\ uversion = 0 /\ ustate = "idle"

NotRun == [res |-> "none", out |-> <<>>]

NoData == [encoding |-> 0, data |-> <<>>]

TextIdle ==
    /\ ttext = <<>>
    /\ tlatin = <<>>
    /\ tle = NotRun
    /\ tbe = NotRun
    /\ tbare = NotRun
    /\ tiso = NotRun
    /\ tback = NotRun
    /\ tdata = NoData
    /\ tsplit = NotRun
    /\ tname = <<>>
    /\ tuser = NotRun
    /\ tkind = "idle"

EncoderIdle == etag = <<>> /\ epadding = 0 /\ enow = NoTime /\ estate = "idle"

FileIdle ==
    /\ disk = <<>>
    /\ disk0 = <<>>
    /\ dframes = <<>>
    /\ fstate = "idle"
    /\ fpath = "none"
    /\ fileSize = 0
    /\ audioReader = [off |-> 0, n |-> 0]
    /\ fileHeader = [Version |-> 0, Size |-> 0]
    /\ fileFrames = <<>>
    /\ fnow = NoTime
    /\ ferr = "nil"

Magic == <<73, 68, 51>>

\* a readHeader that only rejects versions above 4
readHeader_noLowerBound(av) ==
    LET r == ReadFull(av, Len(av), 10) IN
    IF r.err # "nil" THEN [err |-> r.err, header |-> NoHeader, n |-> r.n]
    ELSE IF SubSeq(r.data, 1, 3) # Magic
         THEN [err |-> "InvalidTagHeaderError", header |-> NoHeader, n |-> 10]
    ELSE IF r.data[4] > 4
         THEN [err |-> "UnsupportedVersionError", header |-> NoHeader, n |-> 10]
    ELSE [err |-> "nil",
          header |-> [Version |-> BitOr(Shl(r.data[4], 8), r.data[5]),
                      Flags |-> r.data[6],
                      size |-> desynchsafeInt(SubSeq(r.data, 7, 10))],
          n |-> 10]

\* Decoder.readHeader on the stream av: [err, header, n]
readHeader(av) ==
    LET r == ReadFull(av, Len(av), 10) IN
    IF r.err # "nil" THEN [err |-> r.err, header |-> NoHeader, n |-> r.n]
    ELSE IF SubSeq(r.data, 1, 3) # Magic
         THEN [err |-> "InvalidTagHeaderError", header |-> NoHeader, n |-> 10]
    ELSE IF r.data[4] > 4 \/ r.data[4] < 3
         THEN [err |-> "UnsupportedVersionError", header |-> NoHeader, n |-> 10]
    ELSE [err |-> "nil",
          header |-> [Version |-> BitOr(Shl(r.data[4], 8), r.data[5]),
                      Flags |-> r.data[6],
                      size |-> desynchsafeInt(SubSeq(r.data, 7, 10))],
          n |-> 10]

\* Parse up to its frame loop: ParseHeader, then the two tag flag checks
DecoderParseHeader ==
    /\ pstate = "start"
    /\ LET h == readHeader(Drop(stream, pos)) IN
       /\ pos' = pos + h.n
       /\ IF h.err # "nil"
          THEN /\ pstate' = "done"
               /\ perr' = h.err
               /\ UNCHANGED <<lim, tagHeader>>
          ELSE /\ tagHeader' = h.header
               /\ lim' = h.header.size
               /\ IF HeaderFlags_ExtendedHeader(h.header.Flags)
                     \/ HeaderFlags_Unsynchronisation(h.header.Flags)
                  THEN pstate' = "done" /\ perr' = "UnimplementedFeatureError"
                  ELSE pstate' = "frames" /\ perr' = "nil"
    /\ UNCHANGED <<codecVars, streamVars, encoderVars, fileVars, tagVars, textVars, tagFrames, lastHdr, lastHdrEnd>>

\* one iteration of Parse's loop: ParseFrame, then append the frame, or
\* leave the loop on io.EOF (upgrading an older tag) or return the error
DecoderParseFrame ==
    /\ pstate = "frames"
    /\ \E r \in {ParseFrame(Drop(stream, pos), lim, psr)} :
       /\ pos' = pos + r.n
       /\ lim' = lim - r.n
       /\ lastHdr' = r.hdr
       /\ lastHdrEnd' = IF r.hdr = <<>> THEN lastHdrEnd ELSE pos + 10
       /\ IF r.res = "frame"
          THEN /\ tagFrames' = Append(tagFrames, r.frame)
               /\ UNCHANGED <<pstate, perr, tagHeader>>
          ELSE IF r.res = "panic"
          THEN /\ pstate' = "panic"
               /\ perr' = "panic"
               /\ UNCHANGED <<tagFrames, tagHeader>>
          ELSE IF r.err # "EOF"
          THEN /\ pstate' = "done"
               /\ perr' = r.err
               /\ UNCHANGED <<tagFrames, tagHeader>>
          ELSE IF tagHeader.Version >= 1024
          THEN /\ pstate' = "done"
               /\ perr' = "nil"
               /\ UNCHANGED <<tagFrames, tagHeader>>
          ELSE IF upgrade_panics(tagFrames)
          THEN /\ pstate' = "panic"
               /\ perr' = "panic"
               /\ UNCHANGED <<tagFrames, tagHeader>>
          ELSE /\ pstate' = "done"
               /\ perr' = "nil"
               /\ tagFrames' = upgrade(tagFrames)
               /\ tagHeader' = [tagHeader EXCEPT !.Version = 1024]
    /\ UNCHANGED <<codecVars, streamVars, encoderVars, fileVars, tagVars, textVars>>

(***************************************************************************)
(* Streams to parse.  A stream is a tag header, frame blocks, padding and  *)
(* audio bytes.  Block names a frame as another program could have written *)
(* it: raw are its bytes, class says what is wrong with it ("good" for     *)
(* nothing), frame is the frame a good block stands for.                   *)
(***************************************************************************)
MaxFrames == 2

\* the 4 size bytes of a well-formed header, 7 bits each
SynchsafeBytes(n) ==
    << (n \div 2097152) % 128, (n \div 16384) % 128, (n \div 128) % 128, n % 128 >>

RawFrameSized(id, size, flags, payload) ==
    id \o SynchsafeBytes(size) \o << flags \div 256, flags % 256 >> \o payload

RawFrame(id, flags, payload) == RawFrameSized(id, Len(payload), flags, payload)

GoodBlock(id, flags, payload, frame) ==
    [raw |-> RawFrame(id, flags, payload), class |-> "good", frame |-> frame]

BadBlock(class, raw) == [raw |-> raw, class |-> class, frame |-> <<>>]

Block ==
    [ TIT2 |-> GoodBlock(ID_TIT2, 0, <<3, 72, 105>>,
                   TextInformationFrame(ID_TIT2, 0, <<72, 105>>)),
      TALB |-> GoodBlock(ID_TALB, 16384, <<0, 65, 233>>,
                   TextInformationFrame(ID_TALB, 16384, <<65, 195, 169>>)),
      TCOM |-> GoodBlock(ID_TCOM, 0, <<1, 255, 254, 72, 0>>,
                   TextInformationFrame(ID_TCOM, 0, <<72>>)),
      WOAR |-> GoodBlock(ID_WOAR, 0, <<117, 47>>,
                   URLLinkFrame(ID_WOAR, 0, <<117, 47>>)),
      TXXX |-> GoodBlock(ID_TXXX, 0, <<3, 100, 0, 118>>,
                   UserTextInformationFrame(ID_TXXX, 0, <<100>>, <<118>>)),
      WXXX |-> GoodBlock(ID_WXXX, 0, <<3, 100, 0, 117>>,
                   UserDefinedURLLinkFrame(ID_WXXX, 0, <<100>>, <<117>>)),
      COMM |-> GoodBlock(ID_COMM, 0, <<0, 101, 110, 103, 100, 0, 116>>,
                   CommentFrame(ID_COMM, 0, <<101, 110, 103>>, <<100>>, <<116>>)),
      UFID |-> GoodBlock(ID_UFID, 0, <<111, 0, 1, 2>>,
                   UniqueFileIdentifierFrame(ID_UFID, 0, <<111>>, <<1, 2>>)),
      PRIV |-> GoodBlock(ID_PRIV, 0, <<111, 0, 7>>,
                   PrivateFrame(ID_PRIV, 0, <<111>>, <<7>>)),
      APIC |-> GoodBlock(ID_APIC, 0, <<0, 109, 0, 3, 100, 0, 9, 9>>,
                   PictureFrame(ID_APIC, 0, <<109>>, 3, <<100>>, <<9, 9>>)),
      MCDI |-> GoodBlock(ID_MCDI, 0, <<1, 2>>,
                   MusicCDIdentifierFrame(ID_MCDI, 0, <<1, 2>>)),
      USLT |-> GoodBlock(ID_USLT, 0, <<3, 101, 110, 103, 100, 0, 108>>,
                   UnsynchronisedLyricsFrame(ID_USLT, 0, <<101, 110, 103>>, <<100>>, <<108>>)),
      RVA2 |-> GoodBlock(ID_RVA2, 0, <<5, 6>>,
                   UnsupportedFrame(ID_RVA2, 0, <<5, 6>>)),
      TYER |-> GoodBlock(ID_TYER, 0, <<0, 50, 48, 48, 57>>,
                   TextInformationFrame(ID_TYER, 0, <<50, 48, 48, 57>>)),
      TDAT |-> GoodBlock(ID_TDAT, 0, <<0, 49, 48, 49, 49>>,
                   TextInformationFrame(ID_TDAT, 0, <<49, 48, 49, 49>>)),
      TIME |-> GoodBlock(ID_TIME, 0, <<0, 50, 51, 48, 49>>,
                   TextInformationFrame(ID_TIME, 0, <<50, 51, 48, 49>>)),
      TORY |-> GoodBlock(ID_TORY, 0, <<0, 49, 57, 57, 57>>,
                   TextInformationFrame(ID_TORY, 0, <<49, 57, 57, 57>>)),
      TPE1 |-> GoodBlock(ID_TPE1, 0, <<0, 97, 47, 98>>,
                   TextInformationFrame(ID_TPE1, 0, <<97, 47, 98>>)),
      TPE1b |-> GoodBlock(ID_TPE1, 0, <<0, 99, 47, 100>>,
                   TextInformationFrame(ID_TPE1, 0, <<99, 47, 100>>)),
      XDOR |-> GoodBlock(ID_XDOR, 0, <<1, 2>>,
                   UnsupportedFrame(ID_XDOR, 0, <<1, 2>>)),
      BadEncoding |-> BadBlock("badvalue", RawFrame(ID_TIT2, 0, <<4, 72>>)),
      NoTerminator |-> BadBlock("badvalue",
                           RawFrame(ID_COMM, 0, <<0, 101, 110, 103, 100>>)),
      NoOwnerEnd |-> BadBlock("badvalue", RawFrame(ID_UFID, 0, <<111>>)),
      EmptyText |-> BadBlock("badvalue", RawFrame(ID_TIT2, 0, <<>>)),
      LowerID |-> BadBlock("badid", RawFrame(<<84, 105, 84, 50>>, 0, <<3, 72>>)),
      NulInID |-> BadBlock("badid", RawFrame(<<84, 0, 84, 50>>, 0, <<3, 72>>)),
      Compressed |-> BadBlock("flagged", RawFrame(ID_TIT2, 128, <<3, 72>>)),
      Encrypted |-> BadBlock("flagged", RawFrame(ID_TIT2, 64, <<3, 72>>)),
      Grouped |-> BadBlock("flagged", RawFrame(ID_TIT2, 32, <<3, 72>>)),
      LowerIDGrouped |-> BadBlock("badid", RawFrame(<<84, 105, 84, 50>>, 32, <<3, 72>>)),
      Truncated |-> BadBlock("truncated", RawFrameSized(ID_TIT2, 100, 0, <<3, 72>>)) ]

BlockNames == DOMAIN Block

ItemSeqs == UNION { [1..k -> BlockNames] : k \in 0..MaxFrames }

RECURSIVE BlocksRaw(_)
BlocksRaw(its) == IF its = <<>> THEN <<>> ELSE Block[Head(its)].raw \o BlocksRaw(Tail(its))

\* the first bytes of an MPEG audio stream
Audio == <<255, 251, 144, 100>>

TagHeaderBytes(major, minor, flags, sizeBytes) == Magic \o <<major, minor, flags>> \o sizeBytes

\* a well-formed stream: the header declares the frames and the padding
TagStream(major, its, padding) ==
    TagHeaderBytes(major, 0, 0, SynchsafeBytes(Len(BlocksRaw(its)) + padding))
        \o BlocksRaw(its) \o Zeros(padding) \o Audio

\* a stream that ends before the tag its header declares does: the last
\* lost bytes of the 12 bytes of padding are missing, and so is the audio
TruncatedStream(its, lost) ==
    TagHeaderBytes(4, 0, 0, SynchsafeBytes(Len(BlocksRaw(its)) + 12))
        \o BlocksRaw(its) \o Zeros(12 - lost)

Losses == {1, 7, 12}

\* version, padding and short reads of the well-formed streams
StreamShapes ==
    { [major |-> 4, padding |-> 12, short |-> FALSE],
      [major |-> 4, padding |-> 12, short |-> TRUE],
      [major |-> 4, padding |-> 5, short |-> FALSE],
      [major |-> 3, padding |-> 0, short |-> FALSE],
      [major |-> 3, padding |-> 12, short |-> FALSE] }

\* headers to try in front of one good frame
Majors == {0, 2, 3, 4, 5, 255}
Minors == {0, 255}
TagFlags == {0, 31, 32, 64, 128, 192}
SizeFields == { SynchsafeBytes(13), <<0, 0, 0, 5>>, <<0, 0, 1, 200>>, <<1, 2, 3, 4>> }

\* streams that are not a tag: too short, or without the magic
NotATag == { <<>>, <<73, 68, 51, 4>>, <<84, 65, 71, 4, 0, 0, 0, 0, 0, 13>> \o Audio }

DecoderStart ==
    /\ pos = 0
    /\ lim = -1
    /\ pstate = "start"
    /\ tagHeader = NoHeader
    /\ tagFrames = <<>>
    /\ perr = "nil"
    /\ lastHdr = <<>>
    /\ lastHdrEnd = 0

InitParse ==
    /\ TextIdle
    /\ TagIdle
    /\ CodecIdle
    /\ EncoderIdle
    /\ FileIdle
    /\ DecoderStart
    /\ \/ \E its \in ItemSeqs, sh \in StreamShapes :
             /\ stream = TagStream(sh.major, its, sh.padding)
             /\ pitems = its
             /\ psr = IF sh.short THEN 1 ELSE Len(stream)
       \/ \E major \in Majors, minor \in Minors, flags \in TagFlags, sz \in SizeFields :
             /\ stream = TagHeaderBytes(major, minor, flags, sz)
                            \o BlocksRaw(<<"TIT2">>) \o Audio
             /\ pitems = <<"TIT2">>
             /\ psr = Len(stream)
       \/ \E its \in ItemSeqs, lost \in Losses :
             /\ stream = TruncatedStream(its, lost)
             /\ pitems = its
             /\ psr = Len(stream)
       \/ /\ stream \in NotATag
          /\ pitems = <<>>
          /\ psr = Len(stream) + 1

NextParse == DecoderParseHeader \/ DecoderParseFrame

SpecParse == InitParse /\ [][NextParse]_vars

\* what a claim says about the bytes of the last frame header read
HdrID(h) == SubSeq(h, 1, 4)
IDByteAllowed(b) == b \in 48..57 \/ b \in 65..90
HdrIDInvalid(h) ==
    /\ h # <<>>
    /\ HdrID(h) # <<0, 0, 0, 0>>
    /\ \E i \in 1..4 : ~IDByteAllowed(h[i])
HdrIDValid(h) == h # <<>> /\ \A i \in 1..4 : IDByteAllowed(h[i])
BitSet(x, bit) == (x \div bit) % 2 = 1
StreamHasTagHeader == Len(stream) >= 10 /\ SubSeq(stream, 1, 3) = <<73, 68, 51>>

\* C7: a frame header with an id byte outside '0'-'9' and 'A'-'Z' (the id
\* not all zero) ends Parse with the invalid-frame-header error: nothing is
\* read after that header and no further frame is added.
C7_InvalidIDAbortsParse ==
    HdrIDInvalid(lastHdr) =>
        /\ pstate = "done"
        /\ perr = "InvalidFrameHeaderError"
        /\ pos = lastHdrEnd

C7_Witness ==
    /\ HdrIDInvalid(lastHdr)
    /\ perr = "InvalidFrameHeaderError"
    /\ Len(pitems) = 2
    /\ Block[pitems[1]].class = "badid"
    /\ Block[pitems[2]].class = "good"
    /\ tagFrames = <<>>
    /\ pos = 20

\* C8: a frame with a valid header and an invalid value (an encoding byte
\* outside 0..3, a payload without its field terminator) is dropped alone:
\* Parse goes on and returns the other frames without error.
GoodFrames(its) ==
    LET good == SelectSeq(its, LAMBDA b : Block[b].class = "good")
    IN [i \in 1..Len(good) |-> Block[good[i]].frame]

C8_InvalidValueDropsOnlyThatFrame ==
    ( /\ pstate \in {"done", "panic"}
      /\ StreamHasTagHeader
      /\ SubSeq(stream, 4, 6) = <<4, 0, 0>>
      /\ psr >= Len(stream)
      /\ stream = TagStream(4, pitems, 12)
      /\ \A i \in 1..Len(pitems) : Block[pitems[i]].class \in {"good", "badvalue"}
      /\ \E i \in 1..Len(pitems) : Block[pitems[i]].class = "badvalue" )
    => /\ pstate = "done"
       /\ perr = "nil"
       /\ tagFrames = GoodFrames(pitems)

\* C29: for every byte stream Parse returns a tag and possibly an error; it
\* never panics or indexes out of bounds.
C29_ParseNeverPanics == pstate # "panic"

\* C30: a v2.4 tag whose body is valid frames followed by k zero bytes of
\* padding parses without error and returns those frames, also for a k
\* from 1 to 9.
C30_PaddingParses ==
    ( /\ pstate \in {"done", "panic"}
      /\ psr >= Len(stream)
      /\ \A i \in 1..Len(pitems) : Block[pitems[i]].class = "good"
      /\ \E sh \in StreamShapes :
            sh.major = 4 /\ stream = TagStream(4, pitems, sh.padding) )
    => /\ pstate = "done"
       /\ perr = "nil"
       /\ tagFrames = GoodFrames(pitems)

\* C9: a tag header with the extended-header or unsynchronisation flag, or
\* a frame header (of a valid id) with the compressed, encrypted or grouped
\* flag, ends Parse with UnimplementedFeatureError; the flagged frame is not
\* read as a frame.
C9_UnimplementedFeature ==
    /\ ( /\ pstate # "start"
         /\ StreamHasTagHeader
         /\ stream[4] \in {3, 4}
         /\ (BitSet(stream[6], 64) \/ BitSet(stream[6], 128)) )
       => /\ pstate = "done"
          /\ perr = "UnimplementedFeatureError"
          /\ tagFrames = <<>>
          /\ pos = 10
    /\ ( /\ HdrIDValid(lastHdr)
         /\ (BitSet(lastHdr[10], 128) \/ BitSet(lastHdr[10], 64) \/ BitSet(lastHdr[10], 32)) )
       => /\ pstate = "done"
          /\ perr = "UnimplementedFeatureError"
          /\ pos = lastHdrEnd

C9_Witness ==
    /\ HdrIDValid(lastHdr)
    /\ BitSet(lastHdr[10], 32)
    /\ perr = "UnimplementedFeatureError"
    /\ Len(tagFrames) = 1
    /\ pitems[2] = "Grouped"

\* C12: whenever Parse returns a non-nil error, the tag it returns holds no
\* frames.
C12_ErrorMeansEmptyTag ==
    (pstate = "done" /\ perr # "nil") => tagFrames = <<>>

\* C13: whenever Parse returns without error, exactly 10 + header.size
\* bytes of the stream have been consumed, also when the reader hands over
\* fewer bytes than a Read asked for.
C13_ParseConsumesTag ==
    (pstate = "done" /\ perr = "nil") => pos = 10 + tagHeader.size

\* C10: a 10-byte header starting with "ID3" is refused with the
\* unsupported-version error when its major version is not 3 or 4, and is
\* accepted with its version, flags and decoded size when it is 3 or 4.
SizeOf(b) == b[1] * 2097152 + b[2] * 16384 + b[3] * 128 + b[4]

C10_VersionCheck ==
    (pstate # "start" /\ StreamHasTagHeader) =>
        IF stream[4] \notin {3, 4}
        THEN /\ pstate = "done"
             /\ perr = "UnsupportedVersionError"
             /\ tagHeader = NoHeader
             /\ tagFrames = <<>>
        ELSE /\ perr # "UnsupportedVersionError"
             /\ tagHeader.Flags = stream[6]
             /\ tagHeader.Version =
                    IF stream[4] = 3 /\ pstate = "done" /\ perr = "nil"
                    THEN 1024 ELSE stream[4] * 256 + stream[5]
             /\ (\A i \in 7..10 : stream[i] < 128)
                    => tagHeader.size = SizeOf(SubSeq(stream, 7, 10))

C10_Witness ==
    /\ StreamHasTagHeader
    /\ stream[4] = 2
    /\ pstate = "done"
    /\ perr = "UnsupportedVersionError"
    /\ pos = 10

(***************************************************************************)
(* Encoder.WriteTag, and the round trip through Decoder.Parse.             *)
(***************************************************************************)
\* Encoder.WriteFrame: the frame header, then the payload
Encoder_WriteFrame(f) ==
    FrameHeader_serialize(f.id, f.flags, Frame_size(f) - frameLength) \o Frame_Encode(f)

RECURSIVE FramesSize(_)
FramesSize(frames) ==
    IF frames = <<>> THEN 0 ELSE Frame_size(Head(frames)) + FramesSize(Tail(frames))

RECURSIVE WriteFrames(_)
WriteFrames(frames) ==
    IF frames = <<>> THEN <<>>
    ELSE Encoder_WriteFrame(Head(frames)) \o WriteFrames(Tail(frames))

\* the bytes Encoder.WriteTag writes for the (already stamped) frames
Encoder_WriteTag(frames, padding) ==
    Concat(<< generateHeader(FramesSize(frames) + padding),
              WriteFrames(frames),
              Zeros(padding) >>)

\* WriteTag on a writer that never fails: stamp TDTG, write the tag; the
\* written bytes become the stream a Decoder is then started on
EncoderWriteTag ==
    /\ estate = "ready"
    /\ LET stamped == Tag_SetTextFrameTime(etag, ID_TDTG, enow) IN
       /\ etag' = stamped
       /\ IF \E i \in 1..Len(stamped) : Frame_panics(stamped[i])
          THEN /\ estate' = "panic"
               /\ UNCHANGED <<streamVars, decoderVars>>
          ELSE /\ estate' = "written"
               /\ stream' = Encoder_WriteTag(stamped, epadding)
               /\ psr' = Len(stream')
               /\ pitems' = pitems
               /\ pstate' = "start"
               /\ UNCHANGED <<pos, lim, tagHeader, tagFrames, perr, lastHdr, lastHdrEnd>>
    /\ UNCHANGED <<codecVars, fileVars, tagVars, textVars, epadding, enow>>

\* the frames a tag to encode is drawn from
TagFrameChoices ==
    { Block[b].frame : b \in {"TIT2", "TALB", "WOAR", "TXXX", "WXXX", "COMM", "UFID",
                              "PRIV", "APIC", "MCDI", "USLT"} }
    \cup { URLLinkFrame(ID_WOAR, 0, <<117, 195, 169>>),
           TextInformationFrame(ID_TIT2, 0, <<>>),
           TextInformationFrame(ID_TDTG, 0, <<111, 108, 100>>),
           TextInformationFrame(ID_TRDA, 0, <<49, 48, 49, 49>>),
           TextInformationFrame(ID_TSIZ, 0, <<49>>) }

Tags == UNION { [1..k -> TagFrameChoices] : k \in 0..MaxFrames }

Paddings == {0, 16, 1024}

Nows == { [year |-> 2013, month |-> 2, day |-> 3, hour |-> 4, minute |-> 5, second |-> 6] }

InitRoundTrip ==
    /\ TextIdle
    /\ TagIdle
    /\ CodecIdle
    /\ FileIdle
    /\ StreamIdle
    /\ DecoderIdle
    /\ etag \in Tags
    /\ epadding \in Paddings
    /\ enow \in Nows
    /\ estate = "ready"

NextRoundTrip == EncoderWriteTag \/ DecoderParseHeader \/ DecoderParseFrame

SpecRoundTrip == InitRoundTrip /\ [][NextRoundTrip]_vars

\* C1: for a tag of supported frame kinds, decoding the bytes WriteTag wrote
\* gives the same frames in the same order with the same field values, leaving
\* aside the TDTG stamp and the TRDA payload.
Comparable(frames) == SelectSeq(frames, LAMBDA f : f.id \notin {ID_TDTG, ID_TRDA})

C1_RoundTrip ==
    (estate = "written" /\ pstate \in {"done", "panic"}) =>
        /\ pstate = "done"
        /\ perr = "nil"
        /\ Comparable(tagFrames) = Comparable(etag)

\* C18: a TRDA frame of the tag handed to WriteTag is still in the tag
\* afterwards, and the frames WriteTag wrote between the tag header and the
\* padding are those of the other frames only: no TRDA header, no payload.
C18_TRDANotWritten ==
    (estate = "written" /\ Tag_HasFrame(etag, ID_TRDA)) =>
        SubSeq(stream, tagHeaderSize + 1, Len(stream) - epadding)
            = WriteFrames(SelectSeq(etag, LAMBDA f : f.id # ID_TRDA))

\* C23: the size declared in the tag header WriteTag wrote equals the number
\* of bytes written after the 10-byte header: frame headers, payloads and
\* padding.
C23_DeclaredSizeIsWritten ==
    estate = "written" =>
        SizeOf(SubSeq(stream, 7, 10)) = Len(stream) - tagHeaderSize

\* the blocks whose id no parser handles
IsUnsupportedBlock(name) ==
    Block[name].class = "good" /\ Block[name].frame.kind = "UnsupportedFrame"

\* C14: a frame whose id no parser handles is decoded to an UnsupportedFrame
\* whose Data is the payload of the frame, and encoding that frame gives
\* the bytes of the frame again: id, size, flags and payload.
C14_UnsupportedRoundTrip ==
    \A i \in 1..Len(pitems) :
        (pstate = "frames" /\ Len(tagFrames) >= i /\ IsUnsupportedBlock(pitems[i])) =>
            /\ tagFrames[i] = Block[pitems[i]].frame
            /\ Encoder_WriteFrame(tagFrames[i]) = Block[pitems[i]].raw

(***************************************************************************)
(* The text conversions called on their own: utf16ToUTF8 on the three byte  *)
(* forms of a text, and iso88591ToUTF8 on ISO-8859-1 bytes.                *)
(***************************************************************************)
MaxText == 2

\* 'J', a-umlaut, a CJK ideograph, a code point beyond the BMP, and U+FEFF
CodePoints == {74, 228, 26085, 128512, 65279}

Texts == UNION { [1..k -> CodePoints] : k \in 0..MaxText }

\* ISO-8859-1 inputs: every single byte, and some longer ones
LatinInputs ==
    { <<b>> : b \in Bytes } \cup { <<>>, <<75, 252, 114>>, <<228, 246, 252, 223>> }

\* the UTF-16 code units of a text, and their bytes in either byte order
RECURSIVE UTF16Units(_)
UTF16Units(text) ==
    IF text = <<>> THEN <<>>
    ELSE (IF Head(text) < 65536 THEN <<Head(text)>>
          ELSE << 55296 + ((Head(text) - 65536) \div 1024),
                  56320 + ((Head(text) - 65536) % 1024) >>) \o UTF16Units(Tail(text))

RECURSIVE BigEndianBytes(_)
BigEndianBytes(units) ==
    IF units = <<>> THEN <<>>
    ELSE << Head(units) \div 256, Head(units) % 256 >> \o BigEndianBytes(Tail(units))

RECURSIVE LittleEndianBytes(_)
LittleEndianBytes(units) ==
    IF units = <<>> THEN <<>>
    ELSE << Head(units) % 256, Head(units) \div 256 >> \o LittleEndianBytes(Tail(units))

\* one call of utf16ToUTF8: the bytes returned, or the panic
Call_utf16ToUTF8(input) ==
    IF utf16ToUTF8_panics(input) THEN [res |-> "panic", out |-> <<>>]
    ELSE [res |-> "ok", out |-> utf16ToUTF8(input)]

DecodeLittleEndianBOM ==
    /\ tkind = "utf16"
    /\ tle = NotRun
    /\ tle' = Call_utf16ToUTF8(<<255, 254>> \o LittleEndianBytes(UTF16Units(ttext)))
    /\ UNCHANGED <<ttext, tlatin, tbe, tbare, tiso, tback, tdata, tsplit, tname, tuser, tkind, codecVars, streamVars,
                   decoderVars, encoderVars, fileVars, tagVars>>

DecodeBigEndianBOM ==
    /\ tkind = "utf16"
    /\ tbe = NotRun
    /\ tbe' = Call_utf16ToUTF8(<<254, 255>> \o BigEndianBytes(UTF16Units(ttext)))
    /\ UNCHANGED <<ttext, tlatin, tle, tbare, tiso, tback, tdata, tsplit, tname, tuser, tkind, codecVars, streamVars,
                   decoderVars, encoderVars, fileVars, tagVars>>

DecodeBigEndianBare ==
    /\ tkind = "utf16"
    /\ tbare = NotRun
    /\ tbare' = Call_utf16ToUTF8(BigEndianBytes(UTF16Units(ttext)))
    /\ UNCHANGED <<ttext, tlatin, tle, tbe, tiso, tback, tdata, tsplit, tname, tuser, tkind, codecVars, streamVars,
                   decoderVars, encoderVars, fileVars, tagVars>>

ConvertLatin ==
    /\ tkind = "latin"
    /\ tiso = NotRun
    /\ tiso' = [res |-> "ok", out |-> iso88591ToUTF8(tlatin)]
    /\ UNCHANGED <<ttext, tlatin, tle, tbe, tbare, tback, tdata, tsplit, tname, tuser, tkind, codecVars, streamVars,
                   decoderVars, encoderVars, fileVars, tagVars>>

\* utf8ToISO88591 on the bytes iso88591ToUTF8 returned
ConvertBack ==
    /\ tkind = "latin"
    /\ tiso # NotRun
    /\ tback = NotRun
    /\ tback' = IF utf8ToISO88591_panics(tiso.out) THEN [res |-> "panic", out |-> <<>>]
                ELSE [res |-> "ok", out |-> utf8ToISO88591(tiso.out)]
    /\ UNCHANGED <<ttext, tlatin, tle, tbe, tbare, tiso, tdata, tsplit, tname, tuser, tkind, codecVars,
                   streamVars,
                   decoderVars, encoderVars, fileVars, tagVars>>

\* splitNullN(data, encoding, 2) on a payload declared UTF-16
SplitPayload ==
    /\ tkind = "split"
    /\ tsplit = NotRun
    /\ tsplit' = IF splitNullN_panics(tdata.data, tdata.encoding)
                 THEN [res |-> "panic", out |-> <<>>]
                 ELSE [res |-> "ok", out |-> splitNullN(tdata.data, tdata.encoding)]
    /\ UNCHANGED <<ttext, tlatin, tle, tbe, tbare, tiso, tback, tdata, tname, tuser, tkind, codecVars,
                   streamVars, decoderVars, encoderVars, fileVars, tagVars>>

\* frameNameToUserFrame: a name shorter than 6 is refused, then a name whose
\* first four characters are not "TXXX"; the result is name[5:]
frameNameToUserFrame(name) ==
    IF Len(name) < 6 THEN [frameName |-> <<>>, ok |-> FALSE]
    ELSE IF SubSeq(name, 1, 4) # <<84, 88, 88, 88>>
         THEN [frameName |-> <<>>, ok |-> FALSE]
    ELSE [frameName |-> Drop(name, 5), ok |-> TRUE]

ParseFrameName ==
    /\ tkind = "name"
    /\ tuser = NotRun
    /\ tuser' = [res |-> "ok", out |-> frameNameToUserFrame(tname)]
    /\ UNCHANGED <<ttext, tlatin, tle, tbe, tbare, tiso, tback, tdata, tsplit, tname,
                   tkind, codecVars, streamVars, decoderVars, encoderVars, fileVars,
                   tagVars>>

\* frame names: 'T', 'X', ':' and 'a' in every order, and the names of the
\* package's test ("TLEN", "TXXX:User frame")
MaxName == 6

FrameNames ==
    UNION { [1..k -> {84, 88, 58, 97}] : k \in 0..MaxName }
        \cup { <<84, 76, 69, 78>>,
               <<84, 88, 88, 88, 58, 85, 115, 101, 114, 32, 102, 114, 97, 109, 101>> }

\* payloads to split: the bytes 0 and 'A' in every order, and two fields
\* with byte order marks
MaxData == 5

SplitInputs ==
    UNION { [1..k -> {0, 65}] : k \in 0..MaxData }
        \cup { <<255, 254, 100, 0, 0, 0, 255, 254, 118, 0>>,
               <<254, 255, 0, 100, 0, 0, 254, 255, 0, 118>> }

InitText ==
    /\ CodecIdle
    /\ StreamIdle
    /\ DecoderIdle
    /\ EncoderIdle
    /\ FileIdle
    /\ TagIdle
    /\ tle = NotRun
    /\ tbe = NotRun
    /\ tbare = NotRun
    /\ tiso = NotRun
    /\ tback = NotRun
    /\ tsplit = NotRun
    /\ tuser = NotRun
    /\ \/ /\ tkind = "utf16"
          /\ ttext \in Texts
          /\ tlatin = <<>> /\ tdata = NoData /\ tname = <<>>
       \/ /\ tkind = "latin"
          /\ tlatin \in LatinInputs
          /\ ttext = <<>> /\ tdata = NoData /\ tname = <<>>
       \/ /\ tkind = "split"
          /\ tdata \in [encoding : {utf16bom, utf16be}, data : SplitInputs]
          /\ ttext = <<>> /\ tlatin = <<>> /\ tname = <<>>
       \/ /\ tkind = "name"
          /\ tname \in FrameNames
          /\ ttext = <<>> /\ tlatin = <<>> /\ tdata = NoData

NextText ==
    DecodeLittleEndianBOM \/ DecodeBigEndianBOM \/ DecodeBigEndianBare \/ ConvertLatin
        \/ ConvertBack \/ SplitPayload \/ ParseFrameName

SpecText == InitText /\ [][NextText]_vars

\* the UTF-8 encoding of a text
RECURSIVE UTF8Of(_)
UTF8Of(text) ==
    IF text = <<>> THEN <<>>
    ELSE LET c == Head(text) IN
         (IF c < 128 THEN <<c>>
          ELSE IF c < 2048 THEN << 192 + (c \div 64), 128 + (c % 64) >>
          ELSE IF c < 65536
             THEN << 224 + (c \div 4096), 128 + ((c \div 64) % 64), 128 + (c % 64) >>
          ELSE << 240 + (c \div 262144), 128 + ((c \div 4096) % 64),
                  128 + ((c \div 64) % 64), 128 + (c % 64) >>) \o UTF8Of(Tail(text))

\* C19: for every text, utf16ToUTF8 returns the UTF-8 encoding of the text
\* for each of its three byte forms: little-endian with BOM, big-endian with
\* BOM, and big-endian without BOM.
C19_UTF16FormsAgree ==
    \A r \in {tle, tbe, tbare} :
        r # NotRun => r = [res |-> "ok", out |-> UTF8Of(ttext)]

\* the first 00 00 pair of the payload at an even offset, 0 for none
AlignedPairs(data) ==
    { k \in 1..(Len(data) - 1) : k % 2 = 1 /\ data[k] = 0 /\ data[k + 1] = 0 }

FirstAlignedPair(data) ==
    IF AlignedPairs(data) = {} THEN 0
    ELSE CHOOSE k \in AlignedPairs(data) : \A j \in AlignedPairs(data) : k <= j

\* C22: for a UTF-16 payload splitNullN(data, enc, 2) returns the bytes
\* before the first 00 00 pair at an even offset and the bytes after that
\* pair; without such a pair no field ends.
C22_SplitAtAlignedPair ==
    tsplit # NotRun =>
        LET k == FirstAlignedPair(tdata.data) IN
        IF k > 0
        THEN tsplit = [res |-> "ok",
                       out |-> << SubSeq(tdata.data, 1, k - 1),
                                  SubSeq(tdata.data, k + 2, Len(tdata.data)) >>]
        ELSE tsplit.res = "ok" => Len(tsplit.out) < 2

\* C27: frameNameToUserFrame(name) returns (d, true) exactly when name is
\* "TXXX:" followed by a non-empty d, and ("", false) for every other name.
C27_UserFrameName ==
    tuser # NotRun =>
        tuser.out =
            IF Len(tname) >= 6 /\ SubSeq(tname, 1, 5) = <<84, 88, 88, 88, 58>>
            THEN [frameName |-> Drop(tname, 5), ok |-> TRUE]
            ELSE [frameName |-> <<>>, ok |-> FALSE]

\* C21: for every ISO-8859-1 byte sequence s, in particular every single
\* byte, utf8ToISO88591(iso88591ToUTF8(s)) returns s.
C21_Latin1RoundTrip ==
    tback # NotRun => tback = [res |-> "ok", out |-> tlatin]

C21_Witness ==
    /\ tlatin = <<228, 246, 252, 223>>
    /\ tiso = [res |-> "ok", out |-> <<195, 164, 195, 182, 195, 188, 195, 159>>]
    /\ tback = [res |-> "ok", out |-> tlatin]

\* C20: iso88591ToUTF8 maps every byte b to the UTF-8 encoding of code point
\* b: one byte below 0x80, else 0xC2, b up to 0xBF and 0xC3, b - 0x40 above.
C20_Latin1ToUTF8 ==
    tiso # NotRun =>
        tiso = [res |-> "ok", out |-> UTF8Of(tlatin)]

(***************************************************************************)
(* Tag.upgrade called on a tag of an older version.                        *)
(***************************************************************************)
TagUpgrade ==
    /\ ustate = "old"
    /\ IF upgrade_panics(utag)
       THEN ustate' = "panic" /\ UNCHANGED <<utag, uversion>>
       ELSE /\ utag' = upgrade(utag)
            /\ uversion' = 1024
            /\ ustate' = "upgraded"
    /\ UNCHANGED <<utag0, codecVars, streamVars, decoderVars, encoderVars, fileVars,
                   textVars>>

\* the frames of the tags to upgrade
UpgradeFrameChoices ==
    { Block["TYER"].frame, Block["TDAT"].frame, Block["TIME"].frame,
      Block["TORY"].frame, Block["XDOR"].frame,
      TextInformationFrame(ID_TDOR, 0, <<50, 48, 48, 49>>),
      Block["TPE1"].frame, Block["TPE1b"].frame, Block["TCOM"].frame,
      Block["TALB"].frame,
      TextInformationFrame(ID_TIT2, 0, <<120, 47, 121>>),
      TextInformationFrame(ID_TRDA, 0, <<49, 48, 49, 49>>) }

UpgradeTags == UNION { [1..k -> UpgradeFrameChoices] : k \in 0..(MaxFrames + 1) }

OldVersions == {512, 768}

InitUpgrade ==
    /\ TextIdle
    /\ CodecIdle
    /\ StreamIdle
    /\ DecoderIdle
    /\ EncoderIdle
    /\ FileIdle
    /\ utag \in UpgradeTags
    /\ utag0 = utag
    /\ uversion \in OldVersions
    /\ ustate = "old"

NextUpgrade == TagUpgrade

SpecUpgrade == InitUpgrade /\ [][NextUpgrade]_vars

\* the time a tag's TYER, TDAT (DDMM) and TIME (HHMM) frames stand for; a
\* missing frame counts as year 0, 1 January, 00:00
StatedRecordingTime(frames) ==
    LET date0 == Tag_GetTextFrame(frames, ID_TDAT)
        tim0 == Tag_GetTextFrame(frames, ID_TIME)
        date == IF Len(date0) # 4 THEN <<48, 49, 48, 49>> ELSE date0
        tim == IF Len(tim0) # 4 THEN <<48, 48, 48, 48>> ELSE tim0
    IN time_Date(Tag_GetTextFrameNumber(frames, ID_TYER),
                 Atoi(SubSeq(date, 3, 4)), Atoi(SubSeq(date, 1, 2)),
                 Atoi(SubSeq(tim, 1, 2)), Atoi(SubSeq(tim, 3, 4)))

CountFrames(frames, name) == Cardinality({i \in 1..Len(frames) : frames[i].id = name})

\* C15: upgrading a tag that has any of TYER, TDAT, TIME yields one TDRC
\* frame with the year of TYER, the day and month of TDAT and the hour and
\* minute of TIME, and leaves no TYER, TDAT or TIME frame.
C15_UpgradeRecordingTime ==
    ( /\ ustate = "upgraded"
      /\ \/ Tag_HasFrame(utag0, ID_TYER)
         \/ Tag_HasFrame(utag0, ID_TDAT)
         \/ Tag_HasFrame(utag0, ID_TIME) ) =>
        /\ CountFrames(utag, ID_TDRC) = 1
        /\ Tag_GetTextFrame(utag, ID_TDRC) = time_Format(StatedRecordingTime(utag0))
        /\ ~Tag_HasFrame(utag, ID_TYER)
        /\ ~Tag_HasFrame(utag, ID_TDAT)
        /\ ~Tag_HasFrame(utag, ID_TIME)

\* C16: upgrading a tag that has TORY with year Y and neither TDOR nor XDOR
\* leaves a TDOR frame whose time has year Y and no TORY frame.
C16_UpgradeOriginalRelease ==
    ( /\ ustate = "upgraded"
      /\ Tag_HasFrame(utag0, ID_TORY)
      /\ ~Tag_HasFrame(utag0, ID_TDOR)
      /\ ~Tag_HasFrame(utag0, ID_XDOR) ) =>
        /\ Tag_HasFrame(utag, ID_TDOR)
        /\ SubSeq(Tag_GetTextFrame(utag, ID_TDOR), 1, 4)
              = Digits(Tag_GetTextFrameNumber(utag0, ID_TORY), 4)
        /\ ~Tag_HasFrame(utag, ID_TORY)

\* C25: upgrading a tag without TDOR that has both TORY and XDOR converts
\* TORY to TDOR and does not raise; upgrade raises only for a tag without
\* TDOR that has XDOR and no TORY.
C25_UpgradeRaisesOnlyWithoutTORY ==
    ustate \in {"upgraded", "panic"} =>
        /\ ( /\ ~Tag_HasFrame(utag0, ID_TDOR)
             /\ Tag_HasFrame(utag0, ID_TORY)
             /\ Tag_HasFrame(utag0, ID_XDOR) ) =>
               (ustate = "upgraded" /\ Tag_HasFrame(utag, ID_TDOR))
        /\ ustate = "panic" =>
               ( /\ ~Tag_HasFrame(utag0, ID_TDOR)
                 /\ Tag_HasFrame(utag0, ID_XDOR)
                 /\ ~Tag_HasFrame(utag0, ID_TORY) )

\* the frames of the ids whose '/' separators upgrade rewrites, and the
\* frames of the ids no step of upgrade is about
SlashFrames(frames) == SelectSeq(frames, LAMBDA f : f.id \in SlashIDs)

TimeIDs == {ID_TYER, ID_TDAT, ID_TIME, ID_TDRC, ID_TORY, ID_TDOR}

OtherFrames(frames) == SelectSeq(frames, LAMBDA f : f.id \notin SlashIDs \cup TimeIDs)

\* C17: after upgrade every TLAN, TCON, TPE1, TOPE, TCOM, TEXT and TOLY frame
\* is still there, in its place among them, with its own text and every '/'
\* turned into a NUL byte; the frames of the other ids keep their text.
C17_UpgradeSlashes ==
    ustate = "upgraded" =>
        /\ Len(SlashFrames(utag)) = Len(SlashFrames(utag0))
        /\ \A i \in 1..Len(SlashFrames(utag0)) :
              /\ SlashFrames(utag)[i].id = SlashFrames(utag0)[i].id
              /\ Frame_Value(SlashFrames(utag)[i])
                    = SlashToNul(Frame_Value(SlashFrames(utag0)[i]))
        /\ Len(OtherFrames(utag)) = Len(OtherFrames(utag0))
        /\ \A i \in 1..Len(OtherFrames(utag0)) :
              /\ OtherFrames(utag)[i].id = OtherFrames(utag0)[i].id
              /\ Frame_Value(OtherFrames(utag)[i]) = Frame_Value(OtherFrames(utag0)[i])

(***************************************************************************)
(* File: NewFile, Save and its two paths, on a file that is a sequence of  *)
(* bytes.  This is the snapshot whose Tag.Frames is a map from frame id to *)
(* frames: fileFrames lists the frames in the order the map is walked.     *)
(***************************************************************************)
Padding == 1024

\* readHeader of the File snapshot: only a major version above 4 is refused
File_readHeader(av) ==
    LET r == ReadFull(av, Len(av), 10) IN
    IF r.err # "nil" THEN [err |-> r.err, header |-> [Version |-> 0, Size |-> 0]]
    ELSE IF SubSeq(r.data, 1, 3) # <<73, 68, 51>>
         THEN [err |-> "notATagHeader", header |-> [Version |-> 0, Size |-> 0]]
    ELSE IF r.data[4] > 4
         THEN [err |-> "UnsupportedVersion", header |-> [Version |-> 0, Size |-> 0]]
    ELSE [err |-> "nil",
          header |-> [Version |-> BitOr(Shl(r.data[4], 8), r.data[5]),
                      Size |-> desynchsafeInt(SubSeq(r.data, 7, 10))]]

File_HasTag(header) == header.Version > 0

\* WriteTo of every frame type: the frame header and the payload; a TRDA or
\* TSIZ text frame writes nothing.  The payloads are those of Frame_Encode.
Frame_WriteTo(f) ==
    IF f.kind = "TextInformationFrame" /\ f.id \in {ID_TRDA, ID_TSIZ} THEN <<>>
    ELSE FrameHeader_serialize(f.id, f.flags, Frame_size(f) - frameLength)
             \o Frame_Encode(f)

RECURSIVE FramesMap_size(_)
FramesMap_size(frames) ==
    IF frames = <<>> THEN 0 ELSE Frame_size(Head(frames)) + FramesMap_size(Tail(frames))

RECURSIVE FramesMap_WriteTo(_)
FramesMap_WriteTo(frames) ==
    IF frames = <<>> THEN <<>>
    ELSE Frame_WriteTo(Head(frames)) \o FramesMap_WriteTo(Tail(frames))

\* SetTextFrame on the map: the first frame of the id is replaced, or the id
\* gets its first frame
FramesMap_SetTextFrame(frames, name, value) ==
    LET i == FirstIndex(frames, name)
        newFrame == TextInformationFrame(name, 0, value)
    IN IF i = 0 THEN Append(frames, newFrame) ELSE [frames EXCEPT ![i] = newFrame]

\* what a SectionReader [off, n] of the file d reads from its start to EOF
SectionRead(d, r) ==
    IF r.off >= Len(d) \/ r.n <= 0 THEN <<>>
    ELSE SubSeq(d, r.off + 1, Min(Len(d), r.off + r.n))

\* Write of b at offset 0 of the file d
WriteAtStart(d, b) == b \o Drop(d, Len(b))

\* File.WriteTo: the bytes written, for the frames (stamped again) and the
\* audio section
File_WriteTo(frames, audio) ==
    IF Len(frames) > 0
    THEN Concat(<< generateHeader(FramesMap_size(frames) + Padding),
                   FramesMap_WriteTo(frames),
                   Zeros(Padding),
                   audio >>)
    ELSE audio

\* a Save test that asks for room to spare
File_fits_strict(header, framesSize, nframes) ==
    File_HasTag(header) /\ header.Size > framesSize /\ nframes > 0

\* the test of Save for writing in place
File_fits(header, framesSize, nframes) ==
    File_HasTag(header) /\ header.Size >= framesSize /\ nframes > 0

\* Open: Parse, then NewFile.  A file without the magic gets an empty tag,
\* any other parse error fails Open.  The frames Parse hands over are the
\* frames the tag on disk holds.
FileOpen ==
    /\ fstate = "closed"
    /\ LET h == File_readHeader(disk) IN
       IF h.err \notin {"nil", "notATagHeader"}
       THEN /\ fstate' = "error"
            /\ UNCHANGED <<fileSize, audioReader, fileHeader, fileFrames>>
       ELSE /\ fstate' = "open"
            /\ fileSize' = Len(disk)
            /\ fileHeader' = h.header
            /\ fileFrames' = IF h.err = "nil" THEN dframes ELSE <<>>
            /\ audioReader' = [off |-> tagHeaderSize + h.header.Size,
                               n |-> Len(disk) - h.header.Size]
    /\ UNCHANGED <<codecVars, streamVars, decoderVars, encoderVars, tagVars, textVars,
                   disk, disk0, dframes, fpath, fnow, ferr>>

\* the caller replaces the frames of the open file's tag
FileEdit(frames) ==
    /\ fstate = "open"
    /\ fileFrames' = frames
    /\ fstate' = "edited"
    /\ UNCHANGED <<codecVars, streamVars, decoderVars, encoderVars, tagVars, textVars,
                   disk, disk0, dframes, fpath, fileSize, audioReader, fileHeader, fnow,
                   ferr>>

\* where saveNew can fail: composing the new bytes (a read of the audio or
\* a write to the buffer), truncating the file, copying the buffer to it
SaveFailures == {"none", "compose", "truncate", "copy"}

\* a saveNew that empties the file before it composes the new bytes
saveNew_truncateFirst(d, frames, reader, fail) ==
    IF fail = "compose" THEN [disk |-> <<>>, err |-> "compose"]
    ELSE IF fail = "truncate" THEN [disk |-> d, err |-> "truncate"]
    ELSE IF fail = "copy" THEN [disk |-> <<>>, err |-> "copy"]
    ELSE [disk |-> File_WriteTo(frames, SectionRead(d, reader)), err |-> "nil"]

\* saveNew (in memory): WriteTo a buffer, truncate the file, copy the buffer
\* to it.  The audio is read from the file as it is when WriteTo runs; a
\* failed copy is taken at its first write.
saveNew(d, frames, reader, fail) ==
    IF fail = "compose" THEN [disk |-> d, err |-> "compose"]
    ELSE IF fail = "truncate" THEN [disk |-> d, err |-> "truncate"]
    ELSE IF fail = "copy" THEN [disk |-> <<>>, err |-> "copy"]
    ELSE [disk |-> File_WriteTo(frames, SectionRead(d, reader)), err |-> "nil"]

\* File.Save with saveInplace (no write fails) and saveNew; the first Save
\* of a File ends in "saved", a Save after a further edit in "resaved"
FileSave ==
    /\ fstate \in {"open", "edited", "reedited"}
    /\ \E fail \in SaveFailures :
       LET stamped == FramesMap_SetTextFrame(fileFrames, ID_TDTG, time_Format(fnow))
           framesSize == FramesMap_size(stamped)
           done == IF fstate = "reedited" THEN "resaved" ELSE "saved"
       IN /\ fileFrames' = stamped
          /\ IF \E i \in 1..Len(stamped) : Frame_panics(stamped[i])
             THEN /\ fstate' = "panic"
                  /\ UNCHANGED <<disk, fpath, fileHeader, ferr>>
             ELSE IF File_fits(fileHeader, framesSize, Len(stamped))
                  THEN /\ fail = "none"
                       /\ fstate' = done
                       /\ fpath' = "inplace"
                       /\ ferr' = "nil"
                       /\ disk' = WriteAtStart(disk,
                                     Concat(<< generateHeader(fileHeader.Size),
                                               FramesMap_WriteTo(stamped),
                                               Zeros(fileHeader.Size - framesSize) >>))
                       /\ fileHeader' = [fileHeader EXCEPT !.Version = 1024]
                  ELSE \E r \in {saveNew(disk, stamped, audioReader, fail)} :
                       /\ fpath' = "rewrite"
                       /\ disk' = r.disk
                       /\ ferr' = r.err
                       /\ fstate' = IF r.err = "nil" THEN done ELSE "failed"
                       /\ fileHeader' = IF r.err = "nil"
                                        THEN [Version |-> 1024, Size |-> framesSize + Padding]
                                        ELSE fileHeader
    /\ UNCHANGED <<codecVars, streamVars, decoderVars, encoderVars, tagVars, textVars,
                   disk0, dframes, fileSize, audioReader, fnow>>

\* the caller replaces the frames again after a Save
FileEditSaved(frames) ==
    /\ fstate = "saved"
    /\ fileFrames' = frames
    /\ fstate' = "reedited"
    /\ UNCHANGED <<codecVars, streamVars, decoderVars, encoderVars, tagVars, textVars,
                   disk, disk0, dframes, fpath, fileSize, audioReader, fileHeader, fnow,
                   ferr>>

\* frames of a size that makes the tag 1500 and 3000 bytes with its stamp
BigFrame(total) ==
    PrivateFrame(ID_PRIV, 0, <<111>>, [i \in 1..(total - 30 - frameLength - 2) |-> 7])

FileFrameChoices ==
    { Block["TIT2"].frame, Block["COMM"].frame, Block["WOAR"].frame,
      TextInformationFrame(ID_TDTG, 0, time_Format(NoTime)),
      TextInformationFrame(ID_TRDA, 0, <<49, 48, 49, 49>>),
      TextInformationFrame(ID_TSIZ, 0, <<49>>),
      BigFrame(1500), BigFrame(3000) }

\* the frames of one id are walked together
WalkOrder(frames) ==
    \A i, j, k \in 1..Len(frames) :
        (i < j /\ j < k /\ frames[i].id = frames[k].id) => frames[j].id = frames[i].id

FileTags ==
    { t \in UNION { [1..k -> FileFrameChoices] : k \in 0..MaxFrames } : WalkOrder(t) }

\* files without a tag
FileAudio == <<255, 251, 144, 100, 1, 2, 3, 4, 5, 6, 7, 8>>

\* files that do not hold a whole tag header: audio only, shorter than a
\* header, a near miss of the magic, and the magic cut short
PlainFiles ==
    { FileAudio, <<>>, <<255, 251, 144>>,
      <<73, 68, 50, 3, 0, 0, 0, 0, 0, 0, 1, 2>>,
      <<73, 68, 51, 4, 0>> }

\* tags on disk: their frames and the padding after them
DiskTags ==
    { [frames |-> <<Block["TIT2"].frame>>, padding |-> 0],
      [frames |-> <<Block["TIT2"].frame>>, padding |-> 40],
      [frames |-> <<Block["TIT2"].frame,
                    TextInformationFrame(ID_TDTG, 0, time_Format(NoTime))>>, padding |-> 0],
      [frames |-> <<Block["COMM"].frame, Block["WOAR"].frame, Block["TIT2"].frame,
                    Block["COMM"].frame, Block["WOAR"].frame>>, padding |-> 0],
      [frames |-> <<TextInformationFrame(ID_TSIZ, 0, <<49>>), Block["TIT2"].frame,
                    Block["COMM"].frame, Block["WOAR"].frame>>, padding |-> 0],
      [frames |-> <<PrivateFrame(ID_PRIV, 0, <<111>>, [i \in 1..2036 |-> 9])>>,
       padding |-> 0],
      [frames |-> <<Block["TIT2"].frame>>, padding |-> 2035] }

\* the bytes of the frames of a tag on disk: every frame has its header and
\* its payload there, also a TSIZ frame
RECURSIVE DiskFrames(_)
DiskFrames(frames) ==
    IF frames = <<>> THEN <<>>
    ELSE LET f == Head(frames) IN
         (IF f.kind = "TextInformationFrame"
          THEN FrameHeader_serialize(f.id, f.flags, Len(f.Text) + 1) \o <<utf8>> \o f.Text
          ELSE Frame_WriteTo(f)) \o DiskFrames(Tail(frames))

DiskFile(major, dt) ==
    TagHeaderBytes(major, 0, 0, SynchsafeBytes(Len(DiskFrames(dt.frames)) + dt.padding))
        \o DiskFrames(dt.frames) \o Zeros(dt.padding) \o FileAudio

InitFile ==
    /\ TextIdle
    /\ TagIdle
    /\ CodecIdle
    /\ StreamIdle
    /\ DecoderIdle
    /\ EncoderIdle
    /\ \/ disk \in PlainFiles /\ dframes = <<>>
       \/ \E major \in {2, 3, 4, 5}, dt \in DiskTags :
             disk = DiskFile(major, dt) /\ dframes = dt.frames
    /\ disk0 = disk
    /\ fstate = "closed"
    /\ fpath = "none"
    /\ fileSize = 0
    /\ audioReader = [off |-> 0, n |-> 0]
    /\ fileHeader = [Version |-> 0, Size |-> 0]
    /\ fileFrames = <<>>
    /\ fnow \in Nows
    /\ ferr = "nil"

NextFile == FileOpen \/ (\E t \in FileTags : FileEdit(t)) \/ FileSave

SpecFile == InitFile /\ [][NextFile]_vars

\* a session of two Saves on one File, with an edit before each
SessionTags ==
    { <<>>, <<Block["TIT2"].frame>>, <<Block["TIT2"].frame, Block["COMM"].frame>>,
      <<BigFrame(1500)>>, <<BigFrame(3000)>> }

NextSession ==
    \/ FileOpen
    \/ \E t \in SessionTags : FileEdit(t)
    \/ FileSave
    \/ \E t \in SessionTags : FileEditSaved(t)

SpecSession == InitFile /\ [][NextSession]_vars

\* what the claims say about the file as it was before Save
HadTag == Len(disk0) >= 10 /\ SubSeq(disk0, 1, 3) = <<73, 68, 51>>
RegionSize0 == SizeOf(SubSeq(disk0, 7, 10))
OriginalAudio == IF HadTag THEN Drop(disk0, 10 + RegionSize0) ELSE disk0

\* C2: after a Save on the rewrite path the bytes from offset 10 + F + P on
\* are the original audio bytes (all that followed the original tag, or the
\* whole file when it had no tag).
C2_RewriteKeepsAudio ==
    (fstate = "saved" /\ fpath = "rewrite") =>
        Drop(disk, 10 + FramesMap_size(fileFrames) + Padding) = OriginalAudio

\* C3: after a Save on the in-place path over a tag region of size S the
\* file has its old length, the bytes from offset 10 + S on are unchanged,
\* the header declares S, and the region holds the encoded frames followed
\* by zero bytes only.
C3_InplaceRegion ==
    (fstate = "saved" /\ fpath = "inplace") =>
        LET S == RegionSize0
            enc == FramesMap_WriteTo(fileFrames)
        IN /\ Len(disk) = Len(disk0)
           /\ Drop(disk, 10 + S) = Drop(disk0, 10 + S)
           /\ SizeOf(SubSeq(disk, 7, 10)) = S
           /\ Len(enc) <= S
           /\ SubSeq(disk, 11, 10 + S) = enc \o Zeros(S - Len(enc))

BeginsWithMagic(d) == Len(d) >= 3 /\ SubSeq(d, 1, 3) = Magic

\* C11: a file that does not begin with the magic "ID3" opens without
\* error, with a tag that holds no frames and HasTag() false; HasTag() is
\* true only when the file begins with a header that readHeader accepts.
C11_NoMagicOpens ==
    /\ (fstate \in {"open", "error"} /\ ~BeginsWithMagic(disk0)) =>
           /\ fstate = "open"
           /\ fileFrames = <<>>
           /\ ~File_HasTag(fileHeader)
    /\ (fstate = "open" /\ File_HasTag(fileHeader)) =>
           /\ Len(disk0) >= 10
           /\ BeginsWithMagic(disk0)
           /\ disk0[4] <= 4

SaveStep ==
    /\ fstate \in {"open", "edited", "reedited"}
    /\ fstate' \in {"saved", "resaved", "failed"}

\* C24: after every successful Save of a session the recorded tag size is
\* the length of the tag body on disk: the header on disk declares it and
\* the audio (the bytes the rewrite copied, or the bytes that followed the
\* region written in place) starts at offset 10 + recorded size.
C24_RecordedSizeIsBodyLength ==
    [][ (SaveStep /\ fstate' # "failed") =>
          /\ SizeOf(SubSeq(disk', 7, 10)) = fileHeader'.Size
          /\ Drop(disk', tagHeaderSize + fileHeader'.Size) =
                 IF fpath' = "rewrite" THEN SectionRead(disk, audioReader)
                 ELSE Drop(disk, tagHeaderSize + fileHeader.Size) ]_vars

\* C26: on the rewrite path the file is truncated only after the new bytes
\* have been composed: when composing fails Save returns the error and the
\* file keeps its bytes and its length.
C26_TruncateAfterCompose ==
    [][ (SaveStep /\ fpath' = "rewrite" /\ ferr' = "compose") =>
          (fstate' = "failed" /\ disk' = disk) ]_vars

C26_Witness ==
    /\ fstate = "failed"
    /\ fpath = "rewrite"
    /\ ferr = "compose"
    /\ HadTag
    /\ disk = disk0
    /\ fileFrames # dframes

\* no TSIZ frame among the frames read from the file or saved
NoTSIZ ==
    /\ \A i \in 1..Len(dframes) : dframes[i].id # ID_TSIZ
    /\ \A i \in 1..Len(fileFrames) : fileFrames[i].id # ID_TSIZ

\* C28: after the second successful Save of a session on a file that had a
\* tag, in place or rewriting in any order, the bytes that follow the tag on
\* disk are the original audio (tags without a TSIZ frame).
C28_AudioFollowsTag ==
    (fstate = "resaved" /\ HadTag /\ NoTSIZ) =>
        Drop(disk, tagHeaderSize + SizeOf(SubSeq(disk, 7, 10))) = OriginalAudio

(***************************************************************************)
(* Specification SpecSynch: the codec applied to sizes below 2^28.         *)
(***************************************************************************)
MaxDigit == 3
MaxSize == Pow2(28) - 1

SynchInputs ==
    {0, MaxSize} \cup
    { v \in { d * Pow2(k) : d \in 1..MaxDigit, k \in 0..27 } : v <= MaxSize }

SampleID == <<84, 73, 84, 50>>

InitSynch ==
    /\ TextIdle
    /\ TagIdle
    /\ cx \in SynchInputs
    /\ cbytes = <<>>
    /\ cy = -1
    /\ chdr = <<>>
    /\ cfh = <<>>
    /\ StreamIdle
    /\ DecoderIdle
    /\ EncoderIdle
    /\ FileIdle

SynchEncode ==
    /\ cbytes = <<>>
    /\ cbytes' = intToBytes(synchsafeInt(cx))
    /\ UNCHANGED <<cx, cy, chdr, cfh, streamVars, decoderVars, encoderVars, fileVars, tagVars, textVars>>

SynchDecode ==
    /\ cbytes # <<>>
    /\ cy = -1
    /\ cy' = desynchsafeInt(cbytes)
    /\ UNCHANGED <<cx, cbytes, chdr, cfh, streamVars, decoderVars, encoderVars, fileVars, tagVars, textVars>>

SynchGenerateHeader ==
    /\ chdr = <<>>
    /\ chdr' = generateHeader(cx)
    /\ UNCHANGED <<cx, cbytes, cy, cfh, streamVars, decoderVars, encoderVars, fileVars, tagVars, textVars>>

SynchSerialize ==
    /\ cfh = <<>>
    /\ cfh' = FrameHeader_serialize(SampleID, 0, cx)
    /\ UNCHANGED <<cx, cbytes, cy, chdr, streamVars, decoderVars, encoderVars, fileVars, tagVars, textVars>>

NextSynch == SynchEncode \/ SynchDecode \/ SynchGenerateHeader \/ SynchSerialize

SpecSynch == InitSynch /\ [][NextSynch]_vars

\* C5: for every x in [0, 2^28), desynchsafeInt(intToBytes(synchsafeInt(x))) = x.
C5_SynchsafeRoundTrip == cy # -1 => cy = cx

\* C6: each of the 4 size bytes the encoder writes (tag header size field, frame
\* header size field) has its most significant bit clear.
C6_SizeBytesTopBitClear ==
    /\ chdr # <<>> => \A i \in 7..10 : chdr[i] < 128
    /\ cfh # <<>> => \A i \in 5..8 : cfh[i] < 128
    /\ cbytes # <<>> => \A i \in 1..4 : cbytes[i] < 128

====
